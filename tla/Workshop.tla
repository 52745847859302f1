------------------------------ MODULE Workshop ------------------------------
(***************************************************************************)
(* The Builder Workshop on /play: Apollo's dialogue from a prompt to the   *)
(* spawned agents, the vendor modal, the choice between the demo and a live *)
(* run paid with the user's own API key, and the effect of the animation   *)
(* that makes the live call. A template load is never aborted and lands in *)
(* whatever phase the dialogue is then in.                                 *)
(***************************************************************************)
EXTENDS Naturals

CONSTANTS
  Tiers,     \* the complexity tiers the classifier tells apart
  Vendors,   \* the vendors of the modal
  Anthropic, \* the vendor a modal opens with
  ApiKeys,   \* API keys the pattern accepts
  Absent,    \* null
  RUNS,      \* DEFAULT_RUNS_PER_SESSION
  MAX_LOADS  \* bound: template loads in flight

ASSUME WorkshopAssumption ==
  Anthropic \in Vendors /\ "large" \in Tiers /\ Absent \notin ApiKeys \union Tiers
  /\ "malformed" \notin ApiKeys /\ Absent # "malformed" /\ RUNS \in Nat

VARIABLES
  work,   \* apolloBuilderDialogueStore: [phase, tier, template, config, loads]
  byok,   \* its persisted part and the session storage: [key, mode, runs, storedKey, storedRuns]
  choice, \* ApiKeyModal's own state: [mode, draft]
  modal,  \* builderModelSelectionStore: [open, tier, primary, selected, multi]
  spawn,  \* TheatricalSpawnAnimation: [mounted, seen, fired, answer]
  bus,    \* window.__NERIUM_GAME_BUS__ is set
  calls   \* history: [all, here, chosen], live calls of the tab, of this animation, and consent

workshopVars == <<work, byok, choice, modal, spawn, bus, calls>>

Phases == {"closed", "greeting", "classifying", "template_summary", "structure_proposal",
           "awaiting_runtime_choice", "spawning", "complete", "revising"}

ClosedWork == [phase |-> "closed", tier |-> Absent, template |-> Absent, config |-> Absent,
               loads |-> [t \in Tiers |-> 0]]

\* close and openWorkshop keep the loads in flight; the persisted part is a record of its own.
Emptied(phase) == [ClosedWork EXCEPT !.phase = phase, !.loads = work.loads]

Unmounted == [mounted |-> FALSE, seen |-> <<>>, fired |-> FALSE, answer |-> "none"]

WorkshopInit ==
  /\ work = ClosedWork
  /\ byok = [key |-> Absent, mode |-> "theatrical", runs |-> RUNS,
             storedKey |-> Absent, storedRuns |-> RUNS]
  /\ choice = [mode |-> "theatrical", draft |-> Absent]
  /\ modal = [open |-> FALSE, tier |-> Absent, primary |-> Anthropic,
              selected |-> {Anthropic}, multi |-> FALSE]
  /\ spawn = Unmounted
  /\ bus = FALSE
  /\ calls = [all |-> 0, here |-> 0, chosen |-> FALSE]

(***************************************************************************)
(* Rendering: what follows a change of the phase in the same commit.       *)
(***************************************************************************)
Animated(w) == w.phase \in {"spawning", "complete"} /\ w.template # Absent

\* The animation mounts with fresh refs and leaves with its answer cancelled.
Rendered(w) ==
  /\ work' = w
  /\ spawn' = IF Animated(w) = spawn.mounted THEN spawn
              ELSE [Unmounted EXCEPT !.mounted = Animated(w)]
  /\ calls' = IF Animated(w) = spawn.mounted THEN calls ELSE [calls EXCEPT !.here = 0]

Dependencies == <<byok.mode, byok.key, byok.runs>>
EffectDue == spawn.mounted /\ spawn.seen # Dependencies
ModalShown == modal.open /\ work.phase # "closed"
Ready == ~EffectDue /\ ~ModalShown      \* the dialogue itself takes the user's input

(***************************************************************************)
(* The dialogue.                                                           *)
(***************************************************************************)
WireBridge == /\ ~bus /\ bus' = TRUE
              /\ UNCHANGED <<work, byok, choice, modal, spawn, calls>>

OpenWorkshop ==
  /\ work.phase = "closed"
  /\ Rendered(Emptied("greeting"))
  /\ UNCHANGED <<byok, choice, modal, bus>>

\* The header's button and the backdrop; Escape and Done once the animation shows.
\* The vendor modal's store is not closed with it.
CloseWorkshop ==
  /\ Ready /\ work.phase \notin {"closed", "awaiting_runtime_choice"}
  /\ Rendered(Emptied("closed"))
  /\ UNCHANGED <<byok, choice, modal, bus>>

SubmitPrompt ==
  /\ Ready /\ work.phase = "greeting"
  /\ Rendered([work EXCEPT !.phase = "classifying"])
  /\ UNCHANGED <<byok, choice, modal, bus>>

\* handleClassificationResult, once per classifier: the load has no owner.
Classify(t) ==
  /\ ~EffectDue /\ work.phase = "classifying" /\ work.tier = Absent
  /\ work.loads[t] < MAX_LOADS
  /\ Rendered([work EXCEPT !.tier = t, !.loads[t] = @ + 1])
  /\ UNCHANGED <<byok, choice, modal, bus>>

OpenModal(tier) ==
  [modal EXCEPT !.open = TRUE, !.tier = tier, !.primary = Anthropic, !.selected = {Anthropic}]

\* setTemplate and goTemplateSummary whatever the phase; the modal opens once per entry.
TemplateLoads(t) ==
  /\ ~EffectDue /\ work.loads[t] > 0
  /\ Rendered([work EXCEPT !.loads[t] = @ - 1, !.template = t, !.phase = "template_summary"])
  /\ modal' = IF work.phase # "template_summary" /\ work.tier # Absent
              THEN OpenModal(work.tier) ELSE modal
  /\ UNCHANGED <<byok, choice, bus>>

TemplateFails(t) ==
  /\ ~EffectDue /\ work.loads[t] > 0
  /\ Rendered([work EXCEPT !.loads[t] = @ - 1, !.template = Absent])
  /\ UNCHANGED <<byok, choice, modal, bus>>

(***************************************************************************)
(* The vendor modal.                                                       *)
(***************************************************************************)
SetPrimaryVendor(m, v) ==
  [m EXCEPT !.primary = v, !.selected = IF m.multi THEN @ \union {v} ELSE {v}]

ToggleVendor(m, v) == [m EXCEPT !.selected = IF v \in @ THEN @ \ {v} ELSE @ \union {v}]

VendorClick(v) ==
  /\ ModalShown
  /\ modal' = IF modal.multi /\ v # modal.primary THEN ToggleVendor(modal, v)
              ELSE SetPrimaryVendor(modal, v)
  /\ UNCHANGED <<work, byok, choice, spawn, bus, calls>>

SingleVendor(m) == [m EXCEPT !.multi = FALSE, !.selected = {m.primary}]

\* The switch exists for the large tier only; the setting outlives the modal.
ToggleMulti ==
  /\ ModalShown /\ modal.tier = "large"
  /\ modal' = IF modal.multi THEN SingleVendor(modal) ELSE [modal EXCEPT !.multi = TRUE]
  /\ UNCHANGED <<work, byok, choice, spawn, bus, calls>>

CancelModal ==
  /\ ModalShown
  /\ modal' = [modal EXCEPT !.open = FALSE]
  /\ UNCHANGED <<work, byok, choice, spawn, bus, calls>>

\* emitBusEvent prefers the game's bus, where nobody listens to this topic.
ReachesTheWindow == ~bus

ConfirmModal ==
  /\ ModalShown
  /\ modal' = [modal EXCEPT !.open = FALSE]
  /\ IF ReachesTheWindow /\ work.phase = "template_summary"
     THEN Rendered([work EXCEPT !.config = modal.selected, !.phase = "structure_proposal"])
     ELSE UNCHANGED <<work, spawn, calls>>
  /\ UNCHANGED <<byok, choice, bus>>

(***************************************************************************)
(* The proposal. A revised draft is never applied to the template.         *)
(***************************************************************************)
ApiKeyModalOpens(b) == choice' = [mode |-> b.mode, draft |-> b.key]

Accept ==
  /\ Ready /\ work.phase = "structure_proposal" /\ work.template # Absent
  /\ Rendered([work EXCEPT !.phase = "awaiting_runtime_choice"])
  /\ ApiKeyModalOpens(byok)
  /\ UNCHANGED <<byok, modal, bus>>

Revise ==
  /\ Ready /\ work.phase = "structure_proposal" /\ work.template # Absent
  /\ Rendered([work EXCEPT !.phase = "revising"])
  /\ UNCHANGED <<byok, choice, modal, bus>>

LeaveRevising ==
  /\ Ready /\ work.phase = "revising"
  /\ Rendered([work EXCEPT !.phase = "structure_proposal"])
  /\ UNCHANGED <<byok, choice, modal, bus>>

(***************************************************************************)
(* The choice of the runtime.                                              *)
(***************************************************************************)
Choosing == Ready /\ work.phase = "awaiting_runtime_choice"

ChooseMode(m) ==
  /\ Choosing /\ (m = "live" => byok.runs > 0)
  /\ choice' = [choice EXCEPT !.mode = m]
  /\ UNCHANGED <<work, byok, modal, spawn, bus, calls>>

TypeKey(k) ==
  /\ Choosing /\ choice.mode = "live"
  /\ choice' = [choice EXCEPT !.draft = k]
  /\ UNCHANGED <<work, byok, modal, spawn, bus, calls>>

\* goSpawning, with the history of what the user chose.
Spawn(consent) ==
  /\ work' = [work EXCEPT !.phase = "spawning"]
  /\ spawn' = IF work.template # Absent THEN [Unmounted EXCEPT !.mounted = TRUE] ELSE spawn
  /\ calls' = [calls EXCEPT !.here = 0, !.chosen = consent]

Theatrical(b) == [b EXCEPT !.mode = "theatrical"]

CloseChoiceKeepsMode ==
  /\ Choosing
  /\ Spawn(FALSE)
  /\ UNCHANGED <<byok, choice, modal, bus>>

\* Close, Cancel, Escape, the backdrop, and the demo's own button.
CloseChoice ==
  /\ Choosing
  /\ byok' = Theatrical(byok)
  /\ Spawn(FALSE)
  /\ UNCHANGED <<choice, modal, bus>>

ConfirmLive ==
  /\ Choosing /\ choice.mode = "live" /\ choice.draft \in ApiKeys /\ byok.runs > 0
  /\ byok' = [byok EXCEPT !.mode = "live", !.key = choice.draft, !.storedKey = choice.draft]
  /\ Spawn(TRUE)
  /\ UNCHANGED <<choice, modal, bus>>

ClearApiKey(b) == [b EXCEPT !.mode = "theatrical", !.key = Absent, !.storedKey = Absent]

ClearKey ==
  /\ Choosing /\ choice.mode = "live" /\ byok.key # Absent
  /\ byok' = ClearApiKey(byok)
  /\ ApiKeyModalOpens(byok')
  /\ UNCHANGED <<work, modal, spawn, bus, calls>>

(***************************************************************************)
(* The animation and its live call.                                        *)
(***************************************************************************)
DecrementLiveRunsInMemory(b) == [b EXCEPT !.runs = b.runs - 1]
DecrementLiveRuns(b) == [b EXCEPT !.runs = b.runs - 1, !.storedRuns = b.runs - 1]

MayInvoke == byok.mode = "live" /\ byok.key # Absent /\ byok.runs > 0 /\ ~spawn.fired

\* The effect runs again whenever a dependency changed since it last ran; the
\* cleanup of the earlier run cancels the answer it waits for. The number of runs
\* left is a dependency, and the call itself lowers it.
LiveEffect ==
  LET cleaned == [spawn EXCEPT !.seen = Dependencies,
                               !.answer = IF @ = "awaited" THEN "cancelled" ELSE @]
  IN /\ EffectDue
     /\ IF MayInvoke
        THEN /\ byok' = DecrementLiveRuns(byok)
             /\ spawn' = [cleaned EXCEPT !.fired = TRUE, !.answer = "awaited"]
             /\ calls' = [calls EXCEPT !.all = @ + 1, !.here = @ + 1]
        ELSE spawn' = cleaned /\ UNCHANGED <<byok, calls>>
     /\ UNCHANGED <<work, choice, modal, bus>>

LiveAnswer ==
  /\ ~EffectDue /\ spawn.answer \in {"awaited", "cancelled"}
  /\ spawn' = [spawn EXCEPT !.answer = IF @ = "awaited" THEN "shown" ELSE "none"]
  /\ UNCHANGED <<work, byok, choice, modal, bus, calls>>

\* The last timer or Skip.
AnimationEnds ==
  /\ ~EffectDue /\ spawn.mounted /\ work.phase = "spawning"
  /\ Rendered([work EXCEPT !.phase = "complete"])
  /\ UNCHANGED <<byok, choice, modal, bus>>

\* buildInitialWithSessionStorage.
FromSessionStorage ==
  [byok EXCEPT !.key = byok.storedKey, !.runs = byok.storedRuns,
               !.mode = IF byok.storedKey = Absent THEN "theatrical" ELSE "live"]

Reload ==
  /\ work' = ClosedWork
  /\ byok' = FromSessionStorage
  /\ choice' = [mode |-> "theatrical", draft |-> Absent]
  /\ modal' = [open |-> FALSE, tier |-> Absent, primary |-> Anthropic,
               selected |-> {Anthropic}, multi |-> FALSE]
  /\ spawn' = Unmounted
  /\ bus' = FALSE
  /\ calls' = [calls EXCEPT !.here = 0]

WorkshopNext ==
  \/ WireBridge \/ OpenWorkshop \/ CloseWorkshop \/ SubmitPrompt
  \/ \E t \in Tiers : Classify(t) \/ TemplateLoads(t) \/ TemplateFails(t)
  \/ \E v \in Vendors : VendorClick(v)
  \/ ToggleMulti \/ CancelModal \/ ConfirmModal
  \/ Accept \/ Revise \/ LeaveRevising
  \/ \E m \in {"theatrical", "live"} : ChooseMode(m)
  \/ \E k \in ApiKeys \union {Absent, "malformed"} : TypeKey(k)
  \/ CloseChoice \/ ConfirmLive \/ ClearKey
  \/ LiveEffect \/ LiveAnswer \/ AnimationEnds \/ Reload

WorkshopSpec == WorkshopInit /\ [][WorkshopNext]_workshopVars

(***************************************************************************)
(* Properties.                                                             *)
(***************************************************************************)

\* The stores hold what their types allow, and an animation is on the page exactly
\* when the dialogue shows one (ApolloBuilderWorkshopDialogue's render).
WorkshopTypeOK ==
  /\ work.phase \in Phases /\ work.tier \in Tiers \union {Absent}
  /\ work.template \in Tiers \union {Absent}
  /\ byok.key \in ApiKeys \union {Absent} /\ byok.mode \in {"theatrical", "live"}
  /\ byok.runs \in 0..RUNS
  /\ modal.primary \in Vendors /\ modal.selected \subseteq Vendors
  /\ spawn.mounted = Animated(work)

\* Every live call of the tab is taken off the runs left, across closed dialogues
\* and reloads, and nothing else is (decrementLiveRuns, buildInitialWithSessionStorage).
RunsAccountForCalls == byok.runs = RUNS - calls.all /\ byok.storedRuns = byok.runs

\* One animation makes at most one live call, although its effect runs again when
\* the runs left change (TheatricalSpawnAnimation's liveInvocationFiredRef).
OneCallPerSpawn == calls.here <= 1

\* The user's key lives in the store and in the session storage alike, so that clearing
\* it clears both, and the live mode never outlives it (selectLive, clearApiKey).
KeyInOnePlace == byok.storedKey = byok.key /\ (byok.mode = "live" => byok.key # Absent)

\* The lineup always holds its primary vendor, and only that one unless routing over
\* several vendors is on (builderModelSelectionStore).
VendorLineup == modal.primary \in modal.selected /\ (~modal.multi => modal.selected = {modal.primary})

\* A live call is only made in a run for which the user just chose it: a key or a mode
\* kept from an earlier run never spends money (ApiKeyModal's handleClose, handleConfirm).
LiveCallWasChosen == [][calls'.all # calls.all => calls.chosen]_workshopVars

=============================================================================
