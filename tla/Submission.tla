----------------------------- MODULE Submission -----------------------------
(***************************************************************************)
(* The listing form of the marketplace (SubmissionForm) with its           *)
(* validation and its local drafts.  The source of truth is the parent's   *)
(* draft; what the creator types lives in a store of the module, which     *)
(* outlives the form, and each step hands its patch to the parent.  The    *)
(* fields stay editable while a step is being handed over and while its    *)
(* exit animation runs.  The parent itself is outside the repository.      *)
(***************************************************************************)
EXTENDS Naturals, Sequences

CONSTANTS
  FormNames, \* display names, one of them "" and one too short to have a slug
  SlugFrom,  \* slugifyFromName, as a function from FormNames to FormSlugs
  FormSlugs, \* slugs, "" among them
  KebabSlugs, \* those that SLUG_RE accepts
  TAGS_CAP,  \* MAX_CAPABILITY_TAGS
  LATE_CAP   \* bound: edits that arrive after their step was handed over

ASSUME SubmissionAssumption ==
  /\ "" \in FormNames /\ "" \in FormSlugs /\ "" \notin KebabSlugs
  /\ KebabSlugs \subseteq FormSlugs /\ SlugFrom \in [FormNames -> FormSlugs]
  /\ TAGS_CAP \in Nat \ {0} /\ LATE_CAP \in Nat

VARIABLES
  draft,   \* the parent's draft: [step, listing], or NoForm when the form is not mounted
  buffer,  \* useEditBufferStore: [name, slug, tags, price, params]
  form,    \* the form's state: [errors, auto, save]
  handed,  \* the parent's answer awaited: [kind, listing]
  saving,  \* the draft given to onSaveDraft, or NoForm
  leaving, \* the step whose exit animation runs, or "none"
  drafts,  \* localStorage: [doc, listed]
  late     \* history: edits made after their step was handed over

submissionVars == <<draft, buffer, form, handed, saving, leaving, drafts, late>>

VisibleSteps == <<"metadata_entry", "capability_selection", "pricing_configuration",
                  "living_template_definition", "preview_confirm">>

NextStep(step) ==
  CASE step = "identity_check" -> VisibleSteps[1]
    [] OTHER -> VisibleSteps[1 + CHOOSE i \in 1 .. 4 : VisibleSteps[i] = step]

NoForm == [step |-> "unmounted"]

EmptyBuffer == [name |-> "", slug |-> "", tags |-> 0, price |-> "refused", params |-> "valid"]
PriceEdits == {"refused", "range"} \* no tier or a high below the low; a tier and a range
Params == {"valid", "broken"}  \* living-template parameters: none is valid too

(***************************************************************************)
(* validation.ts: the fields at fault, group by group.                     *)
(***************************************************************************)
MetadataErrors(l) == (IF SlugFrom[l.name] = "" THEN {"display_name"} ELSE {})
                     \union (IF l.slug \notin KebabSlugs THEN {"slug"} ELSE {})
CapabilityErrors(l) == IF l.tags \in 1 .. TAGS_CAP THEN {} ELSE {"capability_tags"}
PricingErrors(l) == IF l.price = "refused" THEN {"usage_cost_hint"} ELSE {}
LivingErrors(l) == IF l.params = "broken" THEN {"living_template_params"} ELSE {}

FullErrors(l) == MetadataErrors(l) \union CapabilityErrors(l) \union PricingErrors(l)
                 \union LivingErrors(l)

ErrorsForStep(step, l) ==
  CASE step = "metadata_entry" -> MetadataErrors(l)
    [] step = "capability_selection" -> CapabilityErrors(l)
    [] step = "pricing_configuration" -> PricingErrors(l)
    [] step = "living_template_definition" -> LivingErrors(l)
    [] step = "preview_confirm" -> FullErrors(l)
    [] OTHER -> {}

\* patchForStep merged into the draft's listing: one group of the buffer.
Patched(step, l) ==
  CASE step = "metadata_entry" -> [l EXCEPT !.name = buffer.name, !.slug = buffer.slug]
    [] step = "capability_selection" -> [l EXCEPT !.tags = buffer.tags]
    [] step = "pricing_configuration" -> [l EXCEPT !.price = buffer.price]
    [] step = "living_template_definition" -> [l EXCEPT !.params = buffer.params]
    [] OTHER -> l

Idle(h) == h.kind = "none"
NothingHanded == [kind |-> "none", listing |-> EmptyBuffer]

SubmissionInit ==
  /\ draft = NoForm /\ buffer = EmptyBuffer /\ saving = NoForm
  /\ form = [errors |-> {}, auto |-> TRUE, save |-> "idle"]
  /\ handed = NothingHanded /\ leaving = "none" /\ late = 0
  /\ drafts = [doc |-> NoForm, listed |-> FALSE]

(***************************************************************************)
(* Mounting.  The first render still holds the buffer of the form before:  *)
(* the automatic slug runs once on that stale buffer and once more if the  *)
(* name changes.                                                           *)
(***************************************************************************)
Hydrated(d) ==
  LET stale == SlugFrom[buffer.name]
      once == IF stale # buffer.slug THEN stale ELSE d.listing.slug
  IN IF d.listing.slug # "" THEN d.listing
     ELSE [d.listing EXCEPT !.slug =
            IF d.listing.name # buffer.name THEN SlugFrom[d.listing.name] ELSE once]

MountForm(d) ==
  /\ draft.step \in {"unmounted", "publish_result"} /\ Idle(handed)
  /\ draft' = d /\ buffer' = Hydrated(d) /\ leaving' = "none"
  /\ form' = [errors |-> {}, auto |-> d.listing.slug = "", save |-> "idle"]
  /\ UNCHANGED <<handed, saving, drafts, late>>

NewSubmission == MountForm([step |-> "identity_check", listing |-> EmptyBuffer])

\* list reads the index and load the document it names.
ResumeDraft == drafts.listed /\ drafts.doc # NoForm /\ MountForm(drafts.doc)

CancelForm == \* disabled while a step or a publish is handed over
  /\ draft.step \in {VisibleSteps[i] : i \in 1 .. 5} /\ Idle(handed)
  /\ draft' = NoForm /\ leaving' = "none"
  /\ UNCHANGED <<buffer, form, handed, saving, drafts, late>>

(***************************************************************************)
(* Editing the step on screen: the one that is leaving, while it leaves.   *)
(***************************************************************************)
ShownStep == IF leaving = "none" THEN draft.step ELSE leaving
TooLate == leaving # "none" \/ handed.kind = "step"

Edit(step, b) ==
  /\ ShownStep = step /\ b # buffer
  /\ TooLate => late < LATE_CAP
  /\ buffer' = b /\ late' = IF TooLate THEN late + 1 ELSE late
  /\ UNCHANGED <<draft, form, handed, saving, leaving, drafts>>

EditName(n) == Edit("metadata_entry",
  [buffer EXCEPT !.name = n,
                 !.slug = IF form.auto /\ n # buffer.name THEN SlugFrom[n] ELSE @])
EditSlug(s) == Edit("metadata_entry", [buffer EXCEPT !.slug = s])
ToggleCapability(n) ==
  /\ n \in {buffer.tags + 1, buffer.tags - 1} \intersect 0 .. TAGS_CAP
  /\ Edit("capability_selection", [buffer EXCEPT !.tags = n])
EditPrice(p) == Edit("pricing_configuration", [buffer EXCEPT !.price = p])
EditParams(p) == Edit("living_template_definition", [buffer EXCEPT !.params = p])

ExitDone ==
  /\ leaving # "none" /\ leaving' = "none"
  /\ UNCHANGED <<draft, buffer, form, handed, saving, drafts, late>>

(***************************************************************************)
(* handleFormSubmit: one step, or the whole listing from the preview.      *)
(***************************************************************************)
HandleAdvance ==
  /\ draft.step \notin {"unmounted", "preview_confirm", "publish_result"} /\ Idle(handed)
  /\ LET listing == Patched(draft.step, draft.listing)
         errors == ErrorsForStep(draft.step, listing)
     IN /\ form' = [form EXCEPT !.errors = errors]
        /\ handed' = IF errors # {} THEN handed ELSE [kind |-> "step", listing |-> listing]
  /\ UNCHANGED <<draft, buffer, saving, leaving, drafts, late>>

StepAnswered(answer) ==
  /\ handed.kind = "step" /\ handed' = NothingHanded
  /\ CASE answer = "accepted" ->
            /\ draft' = [step |-> NextStep(draft.step), listing |-> handed.listing]
            /\ leaving' = IF draft.step = "identity_check" THEN leaving ELSE draft.step
            /\ UNCHANGED form
       [] answer = "ValidationError" ->
            /\ form' = [form EXCEPT !.errors = {"slug"}]
            /\ UNCHANGED <<draft, leaving>>
       [] answer = "failed" -> UNCHANGED <<draft, form, leaving>>
  /\ UNCHANGED <<buffer, saving, drafts, late>>

\* assembleListing fills every field from the buffer, whatever the draft says;
\* the preview is assembled the same way.
Assembled(b) ==
  [name |-> b.name, slug |-> b.slug, tags |-> b.tags, price |-> b.price, params |-> b.params]

HandlePublishOfDraft == \* the draft is checked and the buffer published
  /\ draft.step = "preview_confirm" /\ Idle(handed)
  /\ LET errors == FullErrors(draft.listing)
     IN /\ form' = [form EXCEPT !.errors = IF errors = {} THEN @ ELSE errors]
        /\ handed' = IF errors # {} THEN handed ELSE [kind |-> "publish", listing |-> buffer]
  /\ UNCHANGED <<draft, buffer, saving, leaving, drafts, late>>

HandlePublish ==
  /\ draft.step = "preview_confirm" /\ Idle(handed)
  /\ LET listing == Assembled(buffer)
         errors == FullErrors(listing)
     IN /\ form' = [form EXCEPT !.errors = IF errors = {} THEN @ ELSE errors]
        /\ handed' = IF errors # {} THEN handed ELSE [kind |-> "publish", listing |-> listing]
  /\ UNCHANGED <<draft, buffer, saving, leaving, drafts, late>>

PublishAnswered(answer) ==
  /\ handed.kind = "publish" /\ handed' = NothingHanded
  /\ draft' = IF answer = "published" THEN [draft EXCEPT !.step = "publish_result"] ELSE draft
  /\ form' = [form EXCEPT !.errors = IF answer = "DuplicateSlugError" THEN {"slug"} ELSE @]
  /\ UNCHANGED <<buffer, saving, leaving, drafts, late>>

(***************************************************************************)
(* handleSaveDraft and the local draft store: the whole buffer, unchecked. *)
(***************************************************************************)
HandleSaveDraft ==
  /\ draft.step \in {VisibleSteps[i] : i \in 1 .. 5} /\ form.save # "saving" /\ Idle(handed)
  /\ saving = NoForm
  /\ saving' = [step |-> draft.step, listing |-> buffer]
  /\ form' = [form EXCEPT !.save = "saving"]
  /\ UNCHANGED <<draft, buffer, handed, leaving, drafts, late>>

\* save: the document may exceed the quota, and so may the index, which is not reported.
SaveAnswered(answer) ==
  /\ saving # NoForm /\ saving' = NoForm
  /\ form' = [form EXCEPT !.save = CASE @ # "saving" -> @
                                     [] @ = "saving" /\ answer = "refused" -> "failed"
                                     [] OTHER -> "saved"]
  /\ drafts' = CASE answer = "refused" -> drafts
                 [] answer = "unlisted" -> [drafts EXCEPT !.doc = saving]
                 [] OTHER -> [doc |-> saving, listed |-> TRUE]
  /\ UNCHANGED <<draft, buffer, handed, leaving, late>>

SaveStatusFades ==
  /\ form.save \in {"saved", "failed"} /\ form' = [form EXCEPT !.save = "idle"]
  /\ UNCHANGED <<draft, buffer, handed, saving, leaving, drafts, late>>

RemoveDraft ==
  /\ drafts.doc # NoForm /\ draft.step \in {"unmounted", "publish_result"}
  /\ drafts' = [doc |-> NoForm, listed |-> FALSE]
  /\ UNCHANGED <<draft, buffer, form, handed, saving, leaving, late>>

SubmissionNext ==
  \/ NewSubmission \/ ResumeDraft \/ CancelForm \/ ExitDone
  \/ \E n \in FormNames : EditName(n)
  \/ \E s \in FormSlugs : EditSlug(s)
  \/ \E n \in 0 .. TAGS_CAP : ToggleCapability(n)
  \/ \E p \in PriceEdits : EditPrice(p)
  \/ \E p \in Params : EditParams(p)
  \/ HandleAdvance \/ HandlePublish \/ HandleSaveDraft \/ SaveStatusFades \/ RemoveDraft
  \/ \E a \in {"accepted", "ValidationError", "failed"} : StepAnswered(a)
  \/ \E a \in {"published", "DuplicateSlugError", "failed"} : PublishAnswered(a)
  \/ \E a \in {"saved", "unlisted", "refused"} : SaveAnswered(a)

SubmissionSpec == SubmissionInit /\ [][SubmissionNext]_submissionVars

(***************************************************************************)
(* Properties.                                                             *)
(***************************************************************************)
\* Whatever was edited while a step was handed over or on its way out, the listing that
\* reaches onPublish satisfies every rule of validation.ts.
PublishedListingComplete == handed.kind = "publish" => FullErrors(handed.listing) = {}

\* The preview has no fields and no way back: unless an edit came after its step was handed
\* over, all four groups are valid there, in the buffer, in the parent's draft and in a
\* draft that will be resumed there, so the final check cannot refuse.
PreviewNeverRefuses ==
  late = 0 =>
    /\ draft.step = "preview_confirm" => FullErrors(draft.listing) = {} /\ FullErrors(buffer) = {}
    /\ drafts.doc.step = "preview_confirm" => FullErrors(drafts.doc.listing) = {}
=============================================================================
