------------------------------- MODULE Wizard -------------------------------
(***************************************************************************)
(* The creator's submission wizard: a store with a copy in localStorage    *)
(* per listing, an autosave that is debounced and waits for the save in    *)
(* flight, and the last step, which creates and publishes by itself and    *)
(* then empties the store.  Saves and publishes outlive the page.  The     *)
(* assets step, with state of its own, follows at the end.                 *)
(***************************************************************************)
EXTENDS Naturals, Sequences, FiniteSets

CONSTANTS
  WIZARD_EDITS,       \* bound: edits of the draft
  LISTINGS,    \* bound: listings the server creates
  SAVES,       \* bound: autosave calls in flight
  WAITERS,     \* bound: autosaves that wait for one save
  VISITS       \* bound: times the page is opened

ASSUME WizardAssumption == {WIZARD_EDITS, LISTINGS, SAVES, WAITERS, VISITS} \subseteq Nat \ {0}

VARIABLES
  wizard,   \* useWizardStore: [open, id, step, draft, edited, save]; id 0 is null
  copies,   \* localStorage, by listing id: [step, draft] or NoCopy
  auto,     \* the controller: [timer, inflight]; inflight is a slot of saves, 0 for null
  saves,    \* saveNow calls in flight: slot -> [op, id, body, waiters, mine] or NoSave
  publish,  \* StepSubmit: [stage, id, body, here]; here while its page is still open
  server,   \* listings of the server: <<[edits, status], ...>>
  overlap,  \* history: two requests that write listings were in flight together
  visits

wizardVars == <<wizard, copies, auto, saves, publish, server, overlap, visits>>

\* STEP_IDS; the steps of the assets and of the preview leave this state alone.
WizardSteps == <<"category", "basics", "metadata", "pricing", "submit">>

\* A draft is the steps whose schema it satisfies and two numbers that tell it from other
\* drafts: its edits of what an update carries, and those of the rest (category, subtype,
\* slug and a text that is cleared). Free pricing is valid from the start.
EmptyDraft == [valid |-> {"pricing"}, edits |-> 0, rest |-> 0]
NoCopy == [step |-> 0, draft |-> EmptyDraft]
NoSave == [op |-> "none", id |-> 0, body |-> EmptyDraft, waiters |-> 0, mine |-> FALSE]
NotPublishing == [stage |-> "idle", id |-> 0, body |-> EmptyDraft, here |-> FALSE]
LastStep == Len(WizardSteps)

IsDraftSavable(d) == {"category", "basics"} \subseteq d.valid
ValidForPublish(d) == {"category", "basics", "metadata", "pricing"} \subseteq d.valid

ClosedWizard == [open |-> FALSE, id |-> 0, step |-> 1, draft |-> EmptyDraft,
                 edited |-> FALSE, save |-> "idle"]

WizardInit ==
  /\ wizard = ClosedWizard
  /\ copies = [k \in 0 .. LISTINGS |-> NoCopy]
  /\ auto = [timer |-> FALSE, inflight |-> 0]
  /\ saves = [i \in 1 .. SAVES |-> NoSave]
  /\ publish = NotPublishing /\ server = <<>> /\ overlap = FALSE /\ visits = 0

Flying == {i \in 1 .. SAVES : saves[i] # NoSave}

(***************************************************************************)
(* The store.  Every setter but setSaveState and reset writes the copy of  *)
(* the listing; a changed draft or last_edited_at triggers the autosave.   *)
(***************************************************************************)
WritePersisted(w) == [copies EXCEPT ![w.id] = [step |-> w.step, draft |-> w.draft]]

TriggeredWhenIdle(w) == \* a trigger that a save in flight swallows
  [auto EXCEPT !.timer = @ \/ (w.open /\ IsDraftSavable(w.draft) /\ auto.inflight = 0)]

Triggered(w) == [auto EXCEPT !.timer = @ \/ (w.open /\ IsDraftSavable(w.draft))]

Set(w) == /\ wizard' = w /\ copies' = WritePersisted(w) /\ auto' = Triggered(w)

Rehydrated(id) ==
  LET copy == copies[id] IN
  [open |-> TRUE, id |-> id, step |-> IF copy = NoCopy THEN 1 ELSE copy.step,
   draft |-> copy.draft, edited |-> copy # NoCopy, save |-> "idle"]

OpenWizard(id) ==
  /\ ~wizard.open /\ visits < VISITS /\ visits' = visits + 1
  /\ wizard' = Rehydrated(id)
  /\ auto' = [timer |-> IsDraftSavable(copies[id].draft), inflight |-> 0]
  /\ UNCHANGED <<copies, saves, publish, server, overlap>>

\* cancel clears the timer; it neither flushes nor stops what is in flight or waits for it.
LeaveWizard ==
  /\ wizard.open /\ wizard' = [wizard EXCEPT !.open = FALSE]
  /\ auto' = [timer |-> FALSE, inflight |-> 0]
  /\ saves' = [i \in 1 .. SAVES |-> [saves[i] EXCEPT !.mine = FALSE]]
  /\ publish' = [publish EXCEPT !.here = FALSE]
  /\ UNCHANGED <<copies, server, overlap, visits>>

Busy == publish.stage # "idle"

OnStep(name) == wizard.open /\ WizardSteps[wizard.step] = name

DraftEdited(d, carried) == IF carried THEN [d EXCEPT !.edits = @ + 1] ELSE [d EXCEPT !.rest = @ + 1]

PatchDraft(d, carried) ==
  /\ d.edits + d.rest < WIZARD_EDITS
  /\ Set([wizard EXCEPT !.draft = DraftEdited(d, carried), !.edited = TRUE, !.save = "idle"])
  /\ UNCHANGED <<saves, publish, server, overlap, visits>>

\* A category, the one before or another, whose subtypes may lack the one chosen and whose
\* schema may refuse the metadata kept; a subtype picked next is part of the edit.
HandleCategory ==
  /\ OnStep("category")
  /\ \E lost \in SUBSET {"category", "metadata"} :
       PatchDraft([wizard.draft EXCEPT !.valid = (@ \union {"category"}) \ lost], FALSE)

EditStep(name, carried) == \* an edit leaves the step's fields valid or not
  \E ok \in BOOLEAN : PatchDraft(
    [wizard.draft EXCEPT !.valid = IF ok THEN @ \union {name} ELSE @ \ {name}], carried)

EditBasics == OnStep("basics") /\ \E carried \in BOOLEAN : EditStep("basics", carried)
EditMetadata == OnStep("metadata") /\ EditStep("metadata", TRUE)
EditPricing == OnStep("pricing") /\ EditStep("pricing", TRUE)

HandleNext == \* the step's schema, then advance
  /\ wizard.open /\ wizard.step < LastStep
  /\ WizardSteps[wizard.step] \in wizard.draft.valid
  /\ Set([wizard EXCEPT !.step = @ + 1, !.edited = TRUE])
  /\ UNCHANGED <<saves, publish, server, overlap, visits>>

Retreat ==
  /\ wizard.open /\ wizard.step > 1 /\ ~(wizard.step = LastStep /\ publish.here)
  /\ Set([wizard EXCEPT !.step = @ - 1, !.edited = TRUE])
  /\ UNCHANGED <<saves, publish, server, overlap, visits>>

(***************************************************************************)
(* The autosave.  saveNow reads the draft and the listing id when it       *)
(* starts; all that waited for one save start together when it ends.       *)
(***************************************************************************)
SaveOf(w, mine) ==
  [op |-> IF w.id = 0 THEN "create" ELSE "update", id |-> w.id, body |-> w.draft,
   waiters |-> 0, mine |-> mine]

SaveTimerFires ==
  /\ auto.timer
  /\ IF auto.inflight # 0
     THEN /\ saves[auto.inflight].waiters < WAITERS
          /\ saves' = [saves EXCEPT ![auto.inflight].waiters = @ + 1]
          /\ auto' = [auto EXCEPT !.timer = FALSE]
          /\ UNCHANGED <<wizard, overlap>>
     ELSE IF ~IsDraftSavable(wizard.draft)
     THEN /\ wizard' = [wizard EXCEPT !.save = "idle"]
          /\ auto' = [auto EXCEPT !.timer = FALSE]
          /\ UNCHANGED <<saves, overlap>>
     ELSE LET i == CHOOSE k \in (1 .. SAVES) \ Flying : TRUE IN
          /\ (1 .. SAVES) \ Flying # {}
          /\ saves' = [saves EXCEPT ![i] = SaveOf(wizard, TRUE)]
          /\ auto' = [timer |-> FALSE, inflight |-> i]
          /\ wizard' = [wizard EXCEPT !.save = "saving"]
          /\ overlap' = (overlap \/ Flying # {} \/ Busy)
  /\ UNCHANGED <<copies, publish, server, visits>>

Created(body) == Append(server, [edits |-> body.edits, status |-> "draft"])

\* toUpdateBody has neither the category nor the subtype nor the slug, and no empty text.
Updated(id, body) == [server EXCEPT ![id].edits = body.edits]

SetListingId(w, id) == [w EXCEPT !.id = id, !.edited = TRUE]

\* Slot i ends in wizard w: each of its waiters starts a save of the draft of that moment.
SaveEnds(i, w, timer) ==
  LET n == IF IsDraftSavable(w.draft) THEN saves[i].waiters ELSE 0
      free == ((1 .. SAVES) \ Flying) \union {i}
      slots == CHOOSE used \in SUBSET free : Cardinality(used) = n \* any slots will do
  IN   /\ Cardinality(free) >= n
       /\ saves' = [k \in 1 .. SAVES |-> IF k \in slots THEN SaveOf(w, saves[i].mine)
                                         ELSE IF k = i THEN NoSave ELSE saves[k]]
       /\ overlap' = (overlap \/ n > 1 \/ (n = 1 /\ (Flying # {i} \/ Busy)))
       /\ wizard' = [w EXCEPT !.save = CASE n > 0 -> "saving"
                                         [] n = 0 /\ saves[i].waiters > 0 -> "idle"
                                         [] OTHER -> @]
       /\ auto' = [timer |-> timer,
                   inflight |-> IF ~saves[i].mine THEN auto.inflight
                                ELSE IF n = 0 THEN 0 ELSE CHOOSE k \in slots : TRUE]

SaveSucceeds(i) ==
  /\ saves[i] # NoSave
  /\ IF saves[i].op = "update"
     THEN /\ server' = Updated(saves[i].id, saves[i].body)
          /\ SaveEnds(i, [wizard EXCEPT !.save = "saved"], auto.timer)
          /\ UNCHANGED copies
     ELSE /\ Len(server) < LISTINGS
          /\ server' = Created(saves[i].body)
          /\ LET w == SetListingId(wizard, Len(server) + 1)
             IN /\ SaveEnds(i, [w EXCEPT !.save = "saved"], Triggered(w).timer)
                /\ copies' = WritePersisted(w)
  /\ UNCHANGED <<publish, visits>>

SaveFails(i) ==
  /\ saves[i] # NoSave
  /\ SaveEnds(i, [wizard EXCEPT !.save = "error"], auto.timer)
  /\ UNCHANGED <<copies, publish, server, visits>>

(***************************************************************************)
(* StepSubmit: create unless there is a listing, publish it, reset.  One   *)
(* publish at a time is a bound: a page opened again would start another.  *)
(***************************************************************************)
HandleSubmit ==
  /\ wizard.open /\ wizard.step = LastStep /\ ~Busy /\ ValidForPublish(wizard.draft)
  /\ publish' = [stage |-> IF wizard.id = 0 THEN "creating" ELSE "publishing",
                 id |-> wizard.id, body |-> wizard.draft, here |-> TRUE]
  /\ overlap' = (overlap \/ Flying # {})
  /\ UNCHANGED <<wizard, copies, auto, saves, server, visits>>

SubmitCreated ==
  /\ publish.stage = "creating" /\ Len(server) < LISTINGS
  /\ server' = Created(publish.body)
  /\ Set(SetListingId(wizard, Len(server) + 1))
  /\ publish' = [publish EXCEPT !.stage = "publishing", !.id = Len(server) + 1]
  /\ UNCHANGED <<saves, overlap, visits>>

\* reset removes the copy of the current listing; the page then leaves for the listing's.
SubmitPublished ==
  /\ publish.stage = "publishing"
  /\ server' = [server EXCEPT ![publish.id].status = "published"]
  /\ copies' = [copies EXCEPT ![wizard.id] = NoCopy]
  /\ wizard' = [ClosedWizard EXCEPT !.open = FALSE]
  /\ publish' = NotPublishing
  /\ auto' = [timer |-> FALSE, inflight |-> 0]
  /\ saves' = [i \in 1 .. SAVES |-> [saves[i] EXCEPT !.mine = FALSE]]
  /\ UNCHANGED <<overlap, visits>>

SubmitFails ==
  /\ Busy /\ publish' = NotPublishing
  /\ UNCHANGED <<wizard, copies, auto, saves, server, overlap, visits>>

WizardNext ==
  \/ \E id \in 0 .. Len(server) : OpenWizard(id)
  \/ LeaveWizard \/ HandleCategory \/ EditBasics \/ EditMetadata \/ EditPricing
  \/ HandleNext \/ Retreat
  \/ SaveTimerFires \/ \E i \in 1 .. SAVES : SaveSucceeds(i) \/ SaveFails(i)
  \/ HandleSubmit \/ SubmitCreated \/ SubmitPublished \/ SubmitFails

WizardSpec == WizardInit /\ [][WizardNext]_wizardVars

(***************************************************************************)
(* Properties.                                                             *)
(***************************************************************************)
\* A reload loses no edit: once the creator has edited, the copy kept for the current
\* listing id is the draft and the step on screen, also after the listing is created
\* while the creator goes on typing.
ReloadKeepsEdits ==
  wizard.open /\ wizard.edited => copies[wizard.id] = [step |-> wizard.step, draft |-> wizard.draft]

\* When "Draft saved" stands and nothing is pending, the listing of the wizard holds the
\* edits on screen of every field an update carries, whatever was typed during the saves
\* before, unless two requests that write listings were ever in flight together.  An edit
\* of the category, the subtype or the slug, or a cleared text, after the listing was
\* created is called saved and is not.
SavedMeansSaved ==
  (wizard.open /\ wizard.save = "saved" /\ ~auto.timer /\ Flying = {} /\ ~overlap
   /\ IsDraftSavable(wizard.draft))
  => server[wizard.id].edits = wizard.draft.edits

----------------------------------------------------------------------------
(* The assets step: a probe, an upload in three requests and a list of rows that lives as  *)
(* long as the step, while the draft keeps the references.  An upload writes the references *)
(* of the draft as it saw it when the file was chosen, plus its own.                        *)

CONSTANTS
  AssetIds, \* manifests the storage endpoint hands out
  StubIds,  \* identifiers made up in the browser
  ROUNDS    \* bound: files chosen

ASSUME AssetAssumption == AssetIds \intersect StubIds = {} /\ ROUNDS \in Nat

VARIABLES
  assetRows, \* the step's list, by id
  refs,      \* draft.asset_refs
  assetStep, \* [shown, busy, stub, left]: shown, uploading, stub_mode, the refs it opened with
  uploads,   \* uploads in flight: [id, stage, base]
  chosen,    \* bound: files chosen so far
  crossed    \* history: the list changed while an upload was in flight

assetVars == <<assetRows, refs, assetStep, uploads, chosen, crossed>>

AssetsInit ==
  /\ assetRows = {} /\ refs = {} /\ uploads = {} /\ chosen = 0
  /\ assetStep = [shown |-> FALSE, busy |-> FALSE, stub |-> FALSE, left |-> {}]
  /\ crossed = FALSE

Unused(ids) == ids \ (refs \union {u.id : u \in uploads})

ShowAssets == \* the rows of an earlier visit are gone, their references stay
  /\ ~assetStep.shown
  /\ assetStep' = [shown |-> TRUE, busy |-> FALSE, stub |-> FALSE, left |-> refs]
  /\ assetRows' = {}
  /\ UNCHANGED <<refs, uploads, chosen, crossed>>

LeaveAssets == \* Back and Next are disabled while an upload is known to run
  /\ assetStep.shown /\ ~assetStep.busy
  /\ assetStep' = [assetStep EXCEPT !.shown = FALSE] /\ assetRows' = {}
  /\ crossed' = (crossed \/ uploads # {})
  /\ UNCHANGED <<refs, uploads, chosen>>

\* In stub mode the row is made at once; otherwise the probe comes first.
ChooseFile ==
  /\ assetStep.shown /\ chosen < ROUNDS /\ chosen' = chosen + 1
  /\ crossed' = (crossed \/ uploads # {})
  /\ IF assetStep.stub
     THEN \E id \in Unused(StubIds) :
            /\ assetRows' = assetRows \union {id} /\ refs' = refs \union {id}
            /\ assetStep' = [assetStep EXCEPT !.busy = FALSE] /\ UNCHANGED uploads
     ELSE \E id \in Unused(AssetIds) :
            /\ uploads' = uploads \union {[id |-> id, stage |-> "probe", base |-> refs]}
            /\ assetStep' = [assetStep EXCEPT !.busy = TRUE] /\ UNCHANGED <<assetRows, refs>>

\* A failed probe turns stub mode on for the next file; this one is uploaded all the same,
\* because the handler still holds the mode of its own render.
ProbeAnswered(u, live) ==
  /\ u \in uploads /\ u.stage = "probe"
  /\ uploads' = (uploads \ {u}) \union {[u EXCEPT !.stage = "upload"]}
  /\ assetStep' = [assetStep EXCEPT !.stub = @ \/ (~live /\ assetStep.shown)]
  /\ UNCHANGED <<assetRows, refs, chosen, crossed>>

NewRefs(u) == u.base \union {u.id}

UploadCompletes(u) ==
  /\ u \in uploads /\ u.stage = "upload" /\ uploads' = uploads \ {u}
  /\ assetRows' = IF assetStep.shown THEN assetRows \union {u.id} ELSE assetRows
  /\ refs' = NewRefs(u)
  /\ assetStep' = [assetStep EXCEPT !.busy = FALSE]
  /\ UNCHANGED <<chosen, crossed>>

UploadFails(u) == \* at the presigned request, at the post or at the completion
  /\ u \in uploads /\ u.stage = "upload" /\ uploads' = uploads \ {u}
  /\ assetStep' = [assetStep EXCEPT !.busy = FALSE]
  /\ UNCHANGED <<assetRows, refs, chosen, crossed>>

RemoveAsset(id) ==
  /\ assetStep.shown /\ id \in assetRows
  /\ assetRows' = assetRows \ {id} /\ refs' = refs \ {id}
  /\ crossed' = (crossed \/ uploads # {})
  /\ UNCHANGED <<assetStep, uploads, chosen>>

AssetsNext ==
  \/ ShowAssets \/ LeaveAssets \/ ChooseFile
  \/ \E u \in uploads : (\E live \in BOOLEAN : ProbeAnswered(u, live))
                        \/ UploadCompletes(u) \/ UploadFails(u)
  \/ \E id \in assetRows : RemoveAsset(id)

AssetsSpec == AssetsInit /\ [][AssetsNext]_assetVars

\* As long as the list is left alone while a file is on its way, the references of the
\* draft are those it had when the step was opened and one for every row on screen: what
\* the creator sees is what will be published.
RowsAreTheReferences == assetStep.shown /\ ~crossed => refs = assetStep.left \union assetRows
=============================================================================
