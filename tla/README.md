# Formal models of Nerium

Nerium is an agent marketplace: a FastAPI/PostgreSQL/Redis backend
(`src/src/backend`), Arq background workers, Stripe for money, Anthropic
managed agents for work, and a Next.js front end with a Phaser game
(`src/app`, `src/src/components`, `src/src/game`, `src/src/lib`,
`src/src/state`, `src/src/stores`). This directory holds TLA+ models of the parts where
ordering, concurrency, money and failure meet, the TLC configurations that
check them, and TLAPS proofs of their main properties.

Run from this directory:

    tlc -workers 2 -config Purchase.cfg MCMarketplacePurchase
    tlc -workers 2 -config Game.cfg MCGame
    tlapm MarketplacePurchaseProofs.tla
    tlapm SiteProofs.tla

## 1. Inventory of the system

### Backend

| Component (code) | State | Operations | What is hard | Correct when |
|---|---|---|---|---|
| Marketplace purchase (`commerce/purchase.py`, `commerce/webhook.py`) | `marketplace_purchase` rows, PaymentIntents at Stripe | create intent, complete, fail, refund | concurrent requests with one key; events duplicated, reordered; a crash between Stripe and the insert | one row per key; a sale credited exactly when completed; refunds bounded and counted once; paid is eventually credited |
| Ledger (`billing/ledger.py`) | `billing_ledger_transaction`, `_entry` | post a balanced entry under an idempotency key | replays; two handlers of one event | nothing posted twice; balances move only for what happened |
| Webhook (`billing/webhook.py`) | `subscription_event` | record or skip, dispatch by type, one transaction | at-least-once, unordered delivery; several processes | an event has its effect once |
| Subscription mirror (`billing/subscription.py`) | `subscription` rows | upsert, soft delete, live read at checkout | event order; a read at Stripe that is stale when written | the mirror agrees with Stripe; only canceled subscriptions are removed |
| Stripe Connect (`commerce/connect.py`) | `creator_connect_account` | onboard, sync, gate | a slow sync overwrites a newer one | sales only to creators who can be paid |
| Reviews (`commerce/review.py`) | `marketplace_review` | create, edit, aggregate | purchase check and insert in two transactions | one review per buyer, of a purchase that stands |
| Budget daemon (`budget/*`) | Redis keys (flag, marker, lock), Hemera override | poll the bill, trip the cap, midnight reset | no atomic read-modify-write; TTLs; worker deaths; midnight | an overspend is capped; a new day starts fresh; the builder comes back |
| Managed-agent sessions (`routers/v1/ma`, `ma/*`) | `ma_session`, event streams | create, cancel, stream, account cost | limits checked then used; replay of events | no more above the cap than one count cannot see; one session per key; a cancellation is heard; events read in order |
| Feature flags (`flags/*`) | `hemera_flag`, `hemera_override`, caches | evaluate, override, invalidate | a read that refills a cache after its invalidation | a change is eventually seen |
| OAuth server (`auth/*`) | codes, refresh chains in Redis | authorize, exchange, rotate | replay of codes and tokens, races on rotation | a code is used once; a reused token ends its chain |
| Realtime (`realtime/*`) | connections, tickets, replay log | connect, resume, heartbeat, broadcast | reconnects against cleanup; limits | no lost and no doubled event after a resume |
| Identity (`registry/identity/*`) | keys and their states | rotate, retire | cron against verification | always one active key; old ones verify during the grace |
| Storage (`routers/v1/storage`, `storage/*`) | uploads, scan results | presign, complete, scan | the scan job's retries | nothing unscanned is served |
| Protocol adapters (`protocol/*`) | breaker state, registry | dispatch, trip, probe | concurrent probes | one probe at a time; opens after N failures |
| Listings, moderation (`marketplace/*`, `admin/*`) | listing rows | publish, archive, take down | moderator against creator | a taken-down listing stays down |
| Trust (`trust/*`) | score snapshots | refresh | refresh against new reviews | a snapshot matches its inputs |
| Email (`email/*`, `workers/email_sender.py`) | outbox, warm-up counters | enqueue, send, unsubscribe | retries; the daily quota | a message is sent at most once; quota kept |
| Rate limiting (`middleware/*`) | token buckets in Redis | take | concurrent takes | never above the limit |
| GDPR (`gdpr/*`) | export and deletion jobs | request, cancel, run | a cancel against the run | a canceled deletion does not run |

### Front end

One browser tab runs one thread, so what interleaves is handlers, microtasks,
effects after a render, timers, animation frames and answers that arrive late.
Paths are relative to `src/`.

| Component (code) | State | Operations | What is hard | Correct when |
|---|---|---|---|---|
| Quest, dialogue, rewards (`src/state`, `src/stores/questStore.ts`, `src/stores/dialogueStore.ts`, `src/lib/questRunner.ts`, `src/components/game`) | quest, dialogue, inventory and UI stores | triggers, effects, choices, submit, cinematic | store writes cascade inside each other; effects run again on a remount | an award is paid once and no trigger for it missed |
| Builder chat (`src/game/ui/*`, `src/stores/chatStore.ts`) | messages, buffer, one stream per session | /builder, /cancel, local commands, deltas, reconnect, typewriter | drops and resumes in the middle of an answer | text read once, in order; nothing types after the end |
| Keyboard (`src/lib/focusArbitration.ts`, `src/game/ui/ChatInput.ts`) | mode, focus, world keyboards, history | open, close, type, recall | mode and focus are evaluated in different microtasks | one owner of the keys |
| Scenes (`src/game/scenes/*`, `src/game/objects/*`) | active scene, player, gates, fields of scene objects | walk, interact, leave, enter | a fade lasts many frames; scene objects are reused | one destination; arrival clear of gates; a visit starts fresh |
| Cinematic, intro (`MiniBuilderCinematicScene.ts`, `IntroNarrativeScene.ts`) | timeline, timers, fades | play, skip, complete | two clocks that part; a skip at any moment | everything shown, ended once |
| Audio (`src/lib/audioEngine.ts`, `src/stores/audioStore.ts`) | loops, fades, mixer | start, cross-fade, mute, unlock | a stop to come meets a new start | one loop, at the mixer's volume |
| Avatar (`src/game/objects/Player.ts`, `PreloadScene.ts`) | textures, animations, position | load, move, report | a sheet may not load; reports at intervals | reports add up to the way walked |
| Shop (`src/components/hud`) | inventory, toast, modal | buy, award, clear | a modal that is leaving still takes clicks | a ware is paid for; a toast goes away |
| Workshop (`src/components/apollo`, `src/components/builder`) | dialogue phase, template, lineup, key, mode, runs left | prompt, load, choose, spawn, live call | an effect runs again; a load is never aborted | one call per spawn, each chosen and counted |
| World themes (`app/builder/worlds`, `app/shared/design/theme_runtime.ts`) | theme, local storage, session memory | switch, navigate, reload | three copies of one choice | a reload keeps the world |
| Listing submission (`app/marketplace/listing`) | parent's draft, edit buffer, saved drafts | edit, next, preview, publish | edits while a step is leaving | what is published is complete |
| Creator wizard (`app/creator/submit`) | store, copies by listing, saves in flight, uploads | edit, autosave, create, publish, upload | edits and ids during a save | no edit lost; a row for each reference |
| Search, browse (`app/marketplace/search`, `/browse`) | query, address, filters, rows, requests | type, debounce, filter, sort | answers overtake each other | page, address and rows of one query |
| Remix (`ResultList.tsx`, `LivingTemplateChat.tsx`) | ranking, page, chat form | page, open, send | a template resolves after another was opened | the form is its listing's; sent once |
| Run visualisation (`app/builder/viz`, `app/builder/runtime`) | event sources, socket, timers, canvas | connect, reconnect, dispose | timers whose handle was overwritten | nothing connects after dispose; one stream, held |
| Predictions (`app/builder/prediction`) | latest map, warning history | scan, publish | scans interleave at every publish | each warning told once |
| Demonstrations (`LumioReplay.tsx`, `BlueprintReveal.tsx`, `ConstructionAnimation.ts`) | clocks, timers, scene | play, pause, seek, rebuild | overlapping rebuilds; late frames | ends with everything shown |
| Advisor (`app/advisor`) | session, turns, hand-offs, composer | send, dispatch, reply, note, switch | every await of a turn | turns kept; one strategy per turn; the composer comes back |
| Executor (`app/builder/executor`) | session at the provider, stream, usage | spawn, read, resume, pull, delete | retries and replays | one outcome, billed once, session ended |
| Vendor plan (`app/protocol`) | assignments | add, remove, assign | labels and vendors in step | what is not Anthropic's is marked simulated |
| Translation demo (`app/protocol/translation_demo`, `app/protocol/adapters`) | intent, draft of an edit, panels | translate for two vendors, edit the user's turn, commit | two formats that lose different things; an edit that has to find its turn | both panels say what the intent says, what was lost is told, an edit changes the turn shown |
| Tiers (`src/hooks/useSubscriptionTier.ts`, `src/components/pricing`) | tier store, snapshot, checkouts | refresh, check out | an older answer after a newer one | the tier of the last answer |
| Banking (`app/banking`, `app/marketplace/dashboard`) | cost ticker, odometer, pulses, payouts, invoices | record, flush, emit, download | coalescing timers; several fetches, one spinner | what is shown is what was reported |

Interaction: the purchase route calls the Connect gate, then Stripe, then the
database; Stripe calls back through the webhook, which writes purchases,
subscriptions and the ledger in one transaction per event. The budget daemon
writes Redis keys and a Hemera override which the session gate
(`ma/budget_guard.py`) reads. Jobs run in several Arq workers, requests in
several API processes; they share only PostgreSQL and Redis. In the browser the
Phaser scenes and the React components meet in the zustand stores and on the
game's event bus; pages meet in the address, `localStorage` and
`sessionStorage`.

`PROJECT.json` lists every component with its status and every hazard with the
line where it bites.

## 2. Modules

| Module | Models | Role |
|---|---|---|
| `Ledger` | `billing/ledger.py` | operators on a set of transactions |
| `PurchaseLifecycle` | - | abstract promise of a purchase |
| `MarketplacePurchase` | `commerce/purchase.py`, `commerce/webhook.py`, the purchase and invoice branches of `billing/webhook.py`, `commerce/revenue_split.py` | state machine |
| `MCMarketplacePurchase` | - | constants for TLC |
| `MarketplacePurchaseProofs` | - | proofs |
| `Subscription`, `SubscriptionProofs` | `billing/subscription.py`, the subscription branches of `billing/webhook.py` | state machine, proofs |
| `Chronos`, `ChronosProofs` | `budget/usage_api_poller.py`, `budget/cap_flag.py`, `budget/daily_reset.py` | state machine, proofs |
| `MCBackend` | - | the mirror and the budget: composition, fairness, properties |
| `PlayQuest`, `ChatStream`, `ChatInput`, `Scenes`, `Cinematic`, `Audio`, `Avatar`, `Shop`, `Workshop`, `Worlds` | the browser game (section 1) | one state machine each; `ChatInput` ends with its proof |
| `GameProofs` | - | proofs about worlds, audio, avatar, shop and toast, cinematic, workshop, the scenes' doors, the chat's streams and the quest |
| `MCGame` | - | the game: constants, composition, the properties that several of its components carry together |
| `Submission`, `Wizard`, `Search`, `Browse`, `Remix`, `Viz`, `Cassandra`, `Replay`, `Reveal`, `Tower` | the pages of the site | one state machine each |
| `MCSite` | - | the site: constants, composition, properties |
| `SiteProofs` | - | proofs about submission, wizard, search, browse, remix, visualisation, demonstrations and predictions |
| `Intro`, `Advisor`, `Executor`, `TicketStream`, `Protocol`, `Tiers`, `Dashboards` | intro, studio and dashboards | one state machine each, four in `Dashboards` (cost meter, pulses, earnings, invoices), two in `Protocol` (plan, translation) |
| `MaSession`, `MaStream` | `routers/v1/ma/sessions.py`, `ma/queries.py`, `ma/state_machine.py`; `ma/event_bus.py`, `ma/sse_stream.py` | state machines: the sessions of a user, the event log of one |
| `MCStudio` | - | the studio: constants, composition, fairness, properties |
| `StudioProofs` | - | proofs about the ticket stream, the executor, the sessions and their event log, the intro, the advisor, the plan, the editor and the dashboards |
| `Sums` | - | lemmas about the sums that `Dashboards` and `Shop` are stated with; used by `GameProofs` and `StudioProofs` |

Each of `Subscription` and `Chronos` is also checked as it stands against a
statement of its documentation; the configuration gives the constants.

### MarketplacePurchase

A *request* is one call of `POST /commerce/purchase`; the PaymentIntent it
creates and the row it inserts carry its identity. Its steps are the code's
awaits: `CheckRequest` (the replay lookup and the listing checks, one
transaction), `RequireOnboardedCreator` (a transaction of its own),
`CreateIntent` (split and Stripe call), `InsertRow` (insert with ON CONFLICT DO
NOTHING and read-back). Other requests, webhooks, delisting and account changes
run between them, and `Crash` may end a request between any two. The parts of
the code that only format or validate shape are left out.

Stripe is external: `PaymentFails` (a declined attempt leaves the PaymentIntent
open), `PaymentSucceeds`, `RefundCharge` (the event carries the *cumulative*
amount) and `InvoicePaid` emit events into `sent`. A payment needs somebody who
holds the secret (`HoldsSecret`), so an orphan PaymentIntent whose secret was
never handed out is never paid. `Deliver` delivers any emitted event at any
time, any number of times; `Fresh` is the UNIQUE insert into
`subscription_event` and everything a handler does commits with it, so one
delivery is one step. A handler that raises rolls back, which is a stuttering
step. For a refund both handlers run, as in the code.

`RowSecurity` says whether the webhook's connection is subject to the
`tenant_isolation` policy: with it, the UPDATEs find no row. The proofs hold for
either value where they do not depend on it. `Purchase` checks the code's
promises as if the policy did not apply to it; `PurchaseRowSecurity` has the
policy in force, as `db/README.md` says it is, and no captured payment is
credited.

### Subscription

Stripe moves a subscription through `incomplete`, `active`, `past_due`,
`canceled` and emits one numbered event per change. An update or a Checkout
Session may carry all of the metadata, not all of it, or a tier the code does not
know (`Tag`); the first event always carries it (Checkout seeds it). A Checkout
Session that misses something is recorded with a note and read no further
(`SkipCheckout`); an update without metadata falls back on the row, one with an
unknown tier is dropped, which is why `TierUnknown` is told apart. Handlers are
atomic except the checkout's, which reads the live subscription (`RetrieveLive`)
and writes later (`HandleCheckoutCompleted`) or dies (`Rollback`). The history
variable `reordered` collects the subscriptions an event of which was delivered
before an older one had been answered: it influences nothing, and lets the
properties say what holds without reordering inside one run that allows it.

### Chronos

Every Redis command and the Hemera write is a step of its own. A poller goes
`AcquireLock`, `Fetch`, `ReadFlag`, `SetFlag`, `SetMarker`, `DisableBuilder`,
`ReleaseLock`; `Fail` is the `except` branch, `Die` a worker that dies without
its `finally`. The reset reads the marker, deletes the flag, deletes the marker
and restores the builder if the marker was set; `ResetDies` abandons it, since
a cron job is tried once. `Midnight` expires the marker, whose TTL is the time
to midnight rounded down but at least a second (so it may survive). Nothing
holds midnight or the lock's expiry back: a poll may outlive its lock of 60
seconds (the job's time-out is 300), another may run beside it and have its lock
deleted by the first, and a poll may act after midnight on a report of the day
before. The history variable `late` says that the flag was set by such a poll; it
is what `NewDayStartsFresh` exempts, and no more: the cap of such a poll stays
until the next reset.

### MaSession and MaStream

A request to create a session and the session it inserts share their name. Its
steps are the transactions and awaits of `create_session`: `LookUpKey` (the
replay, a transaction of its own), `PassGates` (whitelist and budget, which give
any answer), `CountActive` and `InsertSession` (two statements of one READ
COMMITTED transaction, so that others commit between them). A cancellation reads
the row without a lock, writes if it read `queued`, and sets the Redis flag after
its transaction, or fails to. The dispatcher that moves rows is not in the
repository; what it may do is `update_session_status`, that is `Legal`. The
history variable `unseen` is the most that any one count could not see when it
let a create through: sessions still queued, and creates between their count and
their insert. `CapButForUnseen` bounds the excess over the cap by it, so creates
that follow each other beside one queued session exceed the cap by one and not by
one each; that the cap itself does not hold is the run `SessionCap`.

In `MaStream` an event is its `ma_event.id`. A writer inserts, publishes inside
its transaction, and commits or not. Two writers that overlap compute the same
`seq`, so the unique index holds the second until the first is over and refuses
it if that one committed (`held`). The endpoint replays pages, probes the row and
only then subscribes; a dropped connection loses the frames under way and the
client comes back with the last id it saw. `slipped` collects what the code
cannot deliver any more: events published between the last page and the
subscription, and those Redis did not publish.

### The front-end modules

Each module is one component with its variables, `<Name>Init`, one action per
handler, effect, timer or answer, `<Name>Next` and its specification. Conventions
common to them:

- A synchronous handler with every store write and subscriber it triggers is one
  step. A microtask, a React effect, a timer, an animation frame and the answer
  to a request are steps of their own, enabled from when they were scheduled; an
  aborted request or a cleaned-up effect is marked and its answer is ignored
  where the code checks, and applied where it does not.
- The exception is `PlayQuest`, whose cascades (a store write that fires triggers
  that write stores) are played call by call: `frames` is the stack of the
  `fireTrigger` calls under way, each with the effect it comes to next, `trigger`
  the event just fired and `caller` what the outermost handler does when it
  returns. Nothing else runs meanwhile, and the stores are settled when no call is
  left. `Overlay` chooses between the full HUD and the lean one.
- A fade (`Scenes`, `Intro`) is a set or sequence of callbacks registered on the
  camera, which all run when it completes.
- `Scenes` follows, beside gates and fades, what Phaser's reused scene objects carry over: `create`
  fills fields, the player's actions set them, `init` and SHUTDOWN reset some.
- Text streamed in `ChatStream` is the sequence of positions in the server's
  script, so that loss, repetition and order show.
- `Viz` keeps every event source, socket and reconnect timer ever made, with
  whether its handle is still held.
- `Executor` models the provider from what the executor relies on: frames, an end
  within the task budget, replay after `Last-Event-ID`. Every publish may reject,
  which `emit` does not catch: `execute()` then throws (`Throw`), and its caller
  has no outcome.
- `Wizard` counts the edits of a draft apart: those of fields that an update
  carries (`edits`) and those of the category, the subtype, the slug or a cleared
  text (`rest`), which `toUpdateBody` leaves out. `SavedMeansSaved` is about the
  first; of the second "Draft saved" says what is not so (below).
- `Cassandra` keeps the warnings a scan could not tell (`untold`): they are in the
  history before their publish rejects.
- `TicketStream` mounts again after an unmount, with a ticket of the old mount on
  its way.
- `Dashboards` gives readings costs of any sign; one that costs nothing or less is
  remembered and adds nothing (`Add`).
- `Protocol` has the plan and the translation. A native prompt is its system
  texts, its turns and its fidelity notes, each note reduced to what it is
  about; parsing and the bytes of the JSON are left out. The intents of a run put
  cache markers, tags and attachments on messages as the contract describes them.
  `demo.editable` is false on the page of the repository, which passes no edit
  handler; the editor is there for an embedder.
- History variables (`ledgerOf` in `Shop`, `calls` in `Workshop`, `crossed` in
  `Advisor`, `counted` in `Executor` and similar) record what happened for a
  property and guard no action except as a bound.

The composites run the parts of one area in one specification. The parts share
no state that the models keep, so `Only(p)` lets one part move in a behaviour
and leaves the others in their initial state: the state spaces add up instead of
multiplying, and a property of the composite speaks about every part. The
constant `Parts` selects the parts of a run.

## 3. Runs

| Run | Root | Property | What it shows |
|---|---|---|---|
| `Purchase` | `MCMarketplacePurchase` | `TypeOK`, `OneRowPerKey`, `LedgerMirrorsCompletion`, `RefundBounds`, `RefundsCountedOnce`, `RefundSharesBounded`, `KeepsLifecycle`, `PaidEventuallyCredited` | two racing requests with one key and a subscription invoice, a declined attempt, refunds of half the price with shares that round, every delivery order; about 168,000 states |
| `Backend` | `MCBackend` | `BackendTypeOK`, `OrderedMirrorTracksStripe`, `DeletedOnlyIfCanceled`, `CanceledIsRemoved`, `NewDayStartsFresh`, `SpendIsCappedInTheEnd` | four changes of one subscription in every delivery order with dying handlers; two workers over two days, polls that outlive their lock or the day, failures and a death; about 152,000 states |
| `Game` | `MCGame` | `QuestPaysOnce`, `AnswerReadOnce`, `KeyboardHasOneOwner`, `DoorsLeadOnce`, `FilmInCharge`, `SeenAndHeardAsStored`, `SpendingAddsUp`, `OnlyAsChosen` | eleven parts of the game, about 615,000 states |
| `Site` | `MCSite` | `ListingIsWhatWasShown`, `DraftKeepsEdits`, `SearchSaysOneThing`, `BrowseFollowsTheChoices`, `RemixOfTheListingShown`, `CanvasReadsItsRun`, `WarningsToldOnce`, `DemonstrationsAddUp`, `DisposedConnectsNothing` | eleven parts of the site, about 1.6 million states |
| `Studio` | `MCStudio` | `KeptInOrder`, `StepSettled`, `StreamIsHeld`, `AccountShownAsItIs`, `PromptsCarryTheIntent`, `SessionsAccounted`, `AllComeToAnEnd` | thirteen parts of the studio with the sessions behind them and their event log, about 278,000 states, with fairness |

A property of a composite is a conjunction of named parts (`QuestPaysOnce` is
`PlayTypeOK`, `AwardNeverMissed`, `RewardsPaidOnce` and
`LobbyPausedForCinematic`); each part is defined and explained in the module of its
component.

Bounds. Backend: two requests are what a race on one key needs; purchases with
different keys share no row. One decline and two refunds reach every pair of
events of a purchase in both orders. Four changes of one subscription hold a
creation, a checkout, an update and a cancellation; subscriptions do not
interact. One unit of spending a day reaches the daily cap of 1, and with the day
before the monthly cap of 2, so that a day trips on its own and only together
with the days before; two days have one midnight between them, at which a poll
may be anywhere, and two workers hold a poll that outlived its lock and the next
one. `ChronosRestore` has larger caps (2 and 3). The proofs lift these bounds for
the safety properties.

Three creates hold two that race on one key, with the same body or another, and
one without a key that competes for the cap of one; one cancellation is under way
at a time. Three events in pages of two, two overlapping writers and one lost
connection reach every order of commit, replay, subscription and resume; with
pages of one, or with four events, the model was run on its own.

Front end: counted actions have a named bound in the module (`MaxFaults`,
`MAX_VISITS`, `GRANTS`, `WIZARD_EDITS`, `SCANS`, `SOURCES`, `CHANGES`, ...), set
to the least at which the hazard happens plus one where it stays small: two
sessions and two faults (a drop during a resume, a clear between two drops), a
chat cap below what is written, so that messages fall off; two visits of every
scene; a wizard with three edits, two listings and a save in flight; two scans
that interleave; a subscriber with three sources of one session and two
attempts; intents of up to three messages of eight kinds against a window of five
blocks, so that a prompt overflows or does not; three reconnects and two retries of the executor. The quest and its
dialogues are the shipped ones, the roster has its 22 agents and the timeline
its milliseconds. The caps the code sets to large values (messages, history,
reconnects, page size) are constants and take small values, since the code only
compares against them.

`CHECK_DEADLOCK FALSE`: a behaviour stops where the bounded counters are used up
or a component is finished (a step that returned, an intro that ended), as the
system does when nobody acts.

### Where the code does not do what it says

| Run | Violated statement | What happens |
|---|---|---|
| `PurchaseRefundCumulative` | `RefundedMeansFullyRefunded`: docstring of `mark_purchase_refunded` | Stripe's amount is cumulative, the code adds it at each event; two partial refunds mark the purchase refunded |
| `PurchaseRefundRevenue` | `SubscriptionRevenueNeverOverdrawn`: comment in `process_stripe_webhook` | a marketplace refund also debits subscription revenue |
| `SubscriptionReordered` | `MirrorTracksStripe`: docstring of the upsert | an older event delivered late overwrites a newer status or resurrects a canceled row |
| `ChronosRestore` | `ResetRestoresBuilder`: docstring of `daily_reset` | the marker expires at the midnight at which the reset looks for it: the reset reads no marker while the builder is off |
| `PurchaseCaptured` | `CapturedIsCompleted`: `marketplace_commerce.contract.md` 4.4 | a success after a declined attempt finds the row `failed` and is passed by |
| `PurchaseRowSecurity` | the same, with the webhook's role subject to row security as `db/README.md` says | the connection has no tenant, so the success finds no row |
| `SessionCap` | `ConcurrentCapHolds`: docstring of `ma/queries.py` | creates count queued sessions and each other's inserts as nothing, so more than the cap run at once |

More disagreements met while modelling, which the models contain and no run
states. Backend:

- the loser of a race on one key is answered with the winner's row and its own
  PaymentIntent's secret (`purchase.py:367`, docstring 177-178);
- the subscription upsert runs on the same connection without a tenant as the
  purchase's (`webhook.py:231`);
- a poll that fetched before midnight sets the flag after the reset, where it stays
  for a day it does not concern (`late`), and the lock's deletion does not check its
  owner, so that two polls may run: no document promises otherwise for a poll of
  more than 60 seconds;
- the router does not catch the unique violation of a raced key, as
  `insert_session` says it does (`ma/queries.py:74-76`): the loser gets an error
  (`InsertSession`);
- row and publication "live or die together" (`ma/event_bus.py:94-95`), but the
  publication precedes the commit: a client may see an event that was rolled back,
  and one that slipped between replay and subscription is not replayed once a
  later one was seen (`GapsHaveSlipped` names exactly these).

Front end:

- after `gameBridge` exposes the game's bus, events of the dialogue, of a
  submitted prompt and of the workshop's confirmation that are emitted on the
  early bus reach nobody (`gameBridge.ts:402`, against `BusBridge.tsx:20-23`);
- `GameHUDLean` mounts no `DialogueOverlay`, so the quest of /play stops at its
  first dialogue step;
- a few flags of reused scenes are never reset (`NeverReset` in `Scenes`):
  the arrival and caravan events fire at the first visit only;
- the cinematic counts from an absolute start: launched 8 s into the game it ends
  after about 4 s (against `thalia-v2.decisions.md:108`); the constant `LoopTimes`
  has both cases;
- the chat retries 8 times, the contract says 5 (`chat_ui.contract.md:306`);
- `focusArbitration` leaves its focusout listener behind (113 against 129);
- in the workshop the answer of a paid live call is dropped and a template load
  that was abandoned still lands;
- a slug generated from a name is never generated again, and a duplicate slug
  refused at the preview has no field to correct (`SubmissionForm.tsx:486-488`);
- the wizard's autosave and its submit may both create a listing
  (`step-submit.tsx:43-48`, `autosave.ts:6-8`), and an upload writes the
  references as they were when its file was chosen, so that a file removed
  meanwhile comes back as a reference (`step-assets.tsx:100`);
- a WebSocket that errors and closes schedules two reconnects
  (`stream_subscriber.ts:303-310`), and a source reopened by reconciliation starts
  its attempts at zero, against the cap per session of the header (21-23);
- an older prediction scan may overwrite the newer map (`cassandra.ts:489`);
- play after a pause or a seek starts a replay's timers again from the beginning
  (against `lumio_demo_cache.contract.md:73`);
- a note of the advisor announced while another turn is appended replaces the
  last turn (`apollo.ts:710-716`), and a lead's time-out leaves no system turn
  (against `advisor_interaction.contract.md:113`);
- both adapters drop without a note what the adapter contract says fidelity notes
  surface (`docs/contracts/protocol_adapter.contract.md`): the cache markers of
  tool results and of messages with attachments only, the locale and the vendor
  preferences, and Gemini the metadata (`LossesAreWarned` names what is told);
- where a user turn without text comes before the one on the screen, an edit goes
  into the empty one (`replaceFirstUserText`, against `findFirstUserText`);
- a retried spawn of the executor may leave an orphan session, and a stream
  closed without a last frame counts as completed (`ma_sse_bridge.ts:151-159`);
- a canceled plan keeps its tier in the store (`useSubscriptionTier.ts:149-153`);
  the
  cost meter goes on after completion, where later readings still count
  (`cost_ticker.ts`, against `cost_meter.contract.md:94`), and a negative cost is
  dropped without the console warning of `cost_meter.contract.md:86`;
- "Draft saved" stands after an edit of the category, the subtype or the slug and
  after a text was cleared, which no update carries (`schema.ts:228-244`), and the
  pending save that `autosave.ts:91-93` would flush on unmount is cancelled
  (`wizard-shell.tsx:104`);
- the error of a failed fetch on the browse page is never taken back: another
  choice loads rows behind it (`BrowseCanvas.tsx:230-233`; `RowsFail`);
- a publish that rejects makes `execute()` throw although its callers expect an
  outcome, and a prediction's history keeps a warning nobody was told.

What the passing properties leave out on purpose, each at the event that causes it
and no wider: `PaidEventuallyCredited` a declined attempt and a refund that came
first; the mirror's properties an overtaken event, which includes a cancellation
between the checkout's live read and its write, and a last update with an unknown
tier; `NewDayStartsFresh` a report of an earlier day; `RefundSharesBounded` is about
one refund event and not the sum of several, which may exceed a share by the
rounding; `SpendIsCappedInTheEnd` is about the flag and not the builder it should
turn off; the chat's gap check is off once the scene was built again
(`AnswerReadOnce`); `GapsHaveSlipped` exempts the events between the last page of a
replay and the subscription; `SavedMeansSaved` two writes of listings in flight
together. Three hazards have no property, because no document says what should
hold: a retry that is answered without the client secret, a listing or an account
that changes behind the gate, a slower sync of the Connect mirror.

## 4. Fairness

`MarketplacePurchase!FairSpec` is weakly fair to the delivery of unanswered
events: Stripe retries for days until it gets a 200. Nothing is assumed of
buyers or requests. `MirrorFairness` adds strong fairness of the completion of a
checkout's handler: a handler that dies at every attempt is an outage.
`ChronosFairness`: the cron starts a poll on some worker again and again, a started
job runs on, keys expire (weak fairness); a poll that is tried for ever does not
fail for ever at the same command (strong fairness of the fetch and of the two
flag commands). Nothing is assumed about deaths beyond their number.

`MCStudio!StudioFairness` is weak, and only of what the code itself schedules: the
intro's timers and fades (the browser runs what is due), the first step of
`execute()` and its stub's answer, and the advisor's leads, which race a time-out
(`withTimeout`), with the step after them. Most awaits have no time-out of their
own: the executor's fetches and its reads of the stream, the advisor's parser,
generator and publishers. What the code relies on there is a premise of the
property and not a part of the specification: `ProviderAnswers` (a request of the
executor is answered or fails, an open stream delivers the frames there are, the
session ends within its task budget; it never forces a stream to drop or close)
and `PromisesSettle` (what the advisor awaits answers or throws). Under it
`AllComeToAnEnd` holds: the intro reaches its last line or ends, the composer is
given back if promises settle, and `execute()` returns or throws if the provider
answers. Nothing is assumed of the user. The other front-end properties need no
fairness.

## 5. Proofs

- `MarketplacePurchaseProofs`: `TypeCorrect`; `SplitConserves` (the fee of every
  price and percentage lies between zero and the price); `OneRowPerKeyHolds`,
  `LedgerMirrorsCompletionHolds`, `RefundBoundsHolds` from the inductive
  invariant `IInv`. None of the three is inductive alone: a row needs a request
  that has replied (`UnrepliedHasNoRow`), an event needs a charge that was
  captured and a row (`EventsAreEarned`), a ledger entry needs an answered event
  (`LedgerComesFromSeen`), and a completed row an answered success event
  (`CompletedWasSeen`). `KeepsLifecycleHolds`: every step maps to a step or a
  stutter of `PurchaseLifecycle` under `status`, `captured` and `completed_at`.
- `MarketplacePurchaseProofs`, refunds: `RefundsCountedOnceHolds` and
  `RefundSharesBoundedHolds`, from the inductive invariant `RInv`. What Stripe
  announces is of a captured charge whose request has replied
  (`SecretsAreOwn`, `CapturedReplied`) and within its price
  (`RefundsWithinPrice`), a fee is between zero and its price
  (`FeesWithinPrice`), and the two legs of a share are entries of the ledger
  (`SharesAreLegs`). Both properties are sums over sets, which the community
  modules define by a fold; a sum here is the number of its units (`Units`,
  `Weight`): `FoldIsWeight`, by a minimal counterexample among the finite
  subsets, and then `RefundTotalAdds` and `PostedTotalAdds` are facts about
  cardinalities.
- `SubscriptionProofs`: `TypeCorrect`, `DeletedOnlyIfCanceledHolds` (a deletion
  event is emitted only by a cancellation, which is final), and
  `OrderedMirrorTracksStripeHolds`. For the last, `History` says what the events
  and the reads in progress know of Stripe and `Ordered` that, without
  overtaking, what is answered is closed under "older", so an event that is not
  the last one can never be answered after the last; what carries no metadata leaves
  the row's own, what names an unknown tier leaves it as it was.
- `ChronosProofs`: `TypeCorrect`; `NewDayStartsFreshHolds`, without any assumption on
  how long a poll takes (`FreshInv`: a report is of the day it was fetched on or of an
  earlier one, one of today is not above the bill, and what a poll on its way to the
  flag has decided was true of the day of its report).
- `StudioProofs`, ticket stream: `TicketInvariant`, `TicketTypes`,
  `OneStreamIsHeld`. That one stream is read is not inductive: a run of the
  effect that waits for its ticket must already be known to be cancelled.
  `TicketInv` adds that every closure but the newest was cancelled
  (`OldRunsAreCancelled`), that a cancelled one reads nothing whenever its ticket
  comes (`CancelledReadsNothing`), that the newest is for the session of the props
  (`ActiveRunIsAskedFor`) and that what reads is in the ref (`ReadingIsHeld`).
- `StudioProofs`, executor: `ExecutorInvariant` and `StepIsSettled`, for any number
  of retries, reconnects, frames and publishes that reject, so that `execute()` returns
  or throws. `ExecutorInv` ties the counts to the last
  event id (`CountedUpToLast`), the bus to the phase (`BusFollowsPhase`) and the
  session's end to the phase (`EndsFollowPhase`).
- `StudioProofs`, sessions: `SessionInvariant` and `SessionsAreAccounted`, for any
  requests, keys, bodies and cap. That the excess over the cap is bounded by what one
  count could not see (`CapButForUnseen`) is inductive, since a create that passes has
  counted fewer than the cap of the others. That a cancellation is heard
  with Redis down needs `CancelHasItsSession`: one that has written has ended its
  session.
- `StudioProofs`, what keeps its order: `OrderIsKept`, from one inductive invariant
  for each of the three parts. `StreamInv`: the frames a client has, those on the
  wire and those in its subscription ascend in this order (`FramesAscend`), what
  was sent precedes what is not settled because the unique index lets one writer
  through at a time (`OneWriter`), before the subscription the cursor is the last
  frame sent (`CursorIsLast`), a subscription knows of everything published
  (`TailKnowsAll`) and what is older than a frame was sent too or has slipped
  (`OlderWasSent`); the last one is what a page of `select_events_since` must
  preserve. `IntroInv`: at most one timer, the fade or the typewriter of the first
  act can end the act that is on (`OneEnding`). `AdvisorInv`: until a note is
  crossed each turn stands at its number and an announced note is the last turn
  (`TurnsStand`); leads are at work only while their turn is dispatched
  (`LeadsOfTheTurn`), when the selector is disabled (`StrategyHeld`).
- `StudioProofs`, what an account shows: `AccountIsShown`, from one invariant for
  each of the seven parts. Costs, shares and bars are sums over sets, which the
  community modules define by a fold; `Sums` shows that the sum of the weights of a
  finite set is the number of its units and then that sums of sets apart add up
  (`SumOfTwo`), that one more weight grows the sum by it (`SumGrows`) and, for the
  bars, that adding up by day counts each payout with a bar once (`SumByKey`).
  `MeterInv`: a ticker has added up the positive costs of what it was told, shares and
  total (`SumsUp`), for readings of any sign, and what waits for a flush has its timer (`FlushPending`).
  `PulseInv`: the pulses are the end of the sequence of those that dwell, whose ids
  differ, so the one whose timer fires is the first on screen or gone
  (`RemovalKeepsEnd`). The filter of the plan is a fold along its list, shown to
  keep one assignment for each other task (`WithoutIsAFold`, `WithoutKeeps`). The
  editor writes to the first text of a user, the panel shows the first message of a
  user with a text; the two are one message as soon as an edit went through
  (`EditedIsFirst`).
- `ChatInput`: `KeyboardOwned` from `KeysInv`: while the input has the focus the world has no keys, and it may be
  without them, the input unfocused, in movement mode only while the reaction to a lost focus is due; and from
  `RecallInv`: the place recalled is within the lines kept, and these within their
  bound.

The game (`GameProofs`):

- `SwitcherAgrees`, `ReloadKeepsWorld`, for any list of worlds. `WorldsInv` adds
  that the document never shows another world than the runtime's and that a
  browser that stores anything has stored that world; `ArrowStaysListed` is the
  arithmetic of the arrow keys.
- `AudioAlways`: one loop at its volume. `StopsAreForEarlierSounds` is what makes
  it inductive: every stop still to come is for a sound started earlier than the
  one that loops, so that no late timer silences the new loop.
- `SeenAndHeard` puts these together with `AvatarInv`: animations come from the
  sheets that had loaded, none before `create`; and with `ToastInv`: a toast in
  sight is mounted, and its effect runs at each change of what was awarded last.
- `FilmRunsInCharge`, from `CinematicInv`: the timers' clock is never behind the
  tweens', what plays has not completed, and what the fade ended had faded out by
  the tweens' clock. `AgentsBeforeTheFade` and `DueBeforeTheFade` are the
  arithmetic of the schedule: a step is the whole part of its share of the
  spawn window, so the last agent comes before the fade whatever the roster's
  size, and subtracting the time the scene was created at keeps that order.
- `WorkshopTyped`, `SpendingIsCounted`, `NothingBehindTheUser`. What was spent in the
  shop is a sum over the wares, and a purchase grows it by one price
  (`SpentOnOneMore`), which the purse held (`PurseInv`). `WorkshopInv` adds that
  the animation is on the page exactly while the dialogue shows one and forgets
  everything when it leaves (`AnimationInv`), and that one that could spend the
  key was chosen to (`ConsentInv`).
- `AnswerIsReadOnce`, from `ChatInv`. Only a session streams, and only into the last
  of its messages (`LastStreams`), so what the typewriter or the end of a stream
  moves goes from the head of a buffer to the end of the text before it
  (`MovedReadable`); the stored messages are those on the screen without what was
  typed since (`SavedAlike`), so building the scene again shows less and never
  something else; what is read is always the last of what was sent (`Trims`), since
  the cap and a clear drop the beginning; and a session that was told "done" has a
  stream that is over and nothing left to type (`DoneIsOver`). `ChatBounds`: the screen
  holds no more messages than the cap, which a message posted makes room for, and a
  stream that waits for its timer has a try left.
- `QuestPays`, from `QuestInv`, an invariant of every call of a cascade and not
  only of settled stores. Each frame is at a later step of the quest than the one
  around it, so the stack is never deeper than the quest is long and the depth
  guard of `fireTrigger` drops nothing (`FramesInv`). An item that is owned was
  promised in a place whose effect was begun, and a place is begun once because
  steps only advance (`Given`, `OwnedOnce`, `ItemsOnce`). A step that waits for an
  item already owned has that item's trigger still to be handled
  (`NoticeUnderWay`). `FireKeeps`, `ApplyKeeps` and `FrameComesPast` are the three
  kinds of call. `QuestAssumption` says of the quest what `lumio_onboarding.json`
  satisfies: rewards in one place each, the step that waits for an item right behind
  the one that awards it, fewer steps than the depth guard.
- `DoorsAreSound`, from `WorldInv` and `VisitsInv`. A scene that fades has its own
  flag set, or it was left by a gate and every gate in reach has fired
  (`LeavingByGate`); the player may walk on for 80 px, and from where the gates of
  the road and of the city are reached no spot brings another gate in reach
  (`RoadWalk`, `ShanghaiWalk`, `NoPlaceByGate`). Only the village has neither. Every
  way out names a spot clear of the gates of its world when it is a gate itself
  (`Ways`, `GatesLead`, `ExitsLead`, `LandmarksLead`). `LivesEmptied`: what a scene's
  create and player fill, SHUTDOWN or init empties, but for `NeverReset`.

The site (`SiteProofs`), each theorem from an inductive invariant of its part:

- `SearchAgrees`: what is still on its way is for the page on the screen or will
  not be heard, and a running debounce holds what the bar shows
  (`NothingStaleComing`).
- `BrowseAgrees`: a fetch that will be heard is for the present choices, and a
  sort that was picked is latched (`ChoicesInForce`).
- `RemixAgrees`: the resolution that will be heard is for the listing the chat is
  for (`HeardForItsListing`) and no request is of a chat to come; `PagesShowItems` is the
  arithmetic of the pages.
- `ListingAgrees`: what a step hands over fits the step on the screen
  (`HandedAtItsStep`); until something crosses an upload there is at most one, begun
  with the references of now (`UploadSeesTheRefs`).
- `DraftAgrees`: until requests overlap, one save or one publish is under way
  (`OneRequest`), and a save nobody waits for, with no timer running, carries the
  edits on screen of the fields an update has to the wizard's listing (`SaveCarriesTheEdits`); every listing id
  in use is one the server gave (`KnownListings`).
- `DemonstrationsAgree`: the replay's last timer is pending until its last step or
  event has happened (`LastTimersLast`); a reveal's clock is that of its last
  frame (`TimestampIsNow`); the rebuild begun last is one of the present world
  (`LatestIsOfTheWorld`).
- `CanvasAgrees`, `DisposedStaysQuiet`: an open source is the registered one or has
  a reason (`OpenForAReason`): an error that overwrote the handle of a pending
  timer. The number of sources of a session is a cardinality, so the proof goes
  through the ways a set of open sources may change in a step (`Explained`); it
  assumes that the endpoints are finite.
- `WarningsAgree`: a scan that warned of something untold has thrown and says no more
  (`UntoldEndsItsScan`); a scan has looked at its steps in order, has warned of those
  behind it and of no other, and touches the warnings of no other scan
  (`WarningsInv`). A specialist is named by its step's index, so that scans keep
  sets of steps.

The proofs assume only the named assumptions on the constants. Those of `Worlds`,
`Scenes`, `Shop`, `Protocol`, `Dashboards`, `ChatInput`, `Search`, `Browse`, `PlayQuest`,
`Remix`, `Submission`, `Replay` and `Viz` say what the code's constants satisfy (the
worlds listed are among all worlds, the wares are finitely many, the scenes the game
starts in and visits are scenes, sentinels are no values, every listing has its
fields and every message of an intent its, a trace ends after its last step). The
proofs also found two CASE expressions whose guards overlapped (what a finished save
leaves in `Wizard`, what an answer leaves in `Submission`); their guards now exclude
each other, as the branches of the code do. `OneSourcePerSession` of `Viz` counts
the errors that came while a timer was pending instead of bounding the sources by a
constant, since the code gives no constant.

Only model-checked, and why:

- every liveness property (fairness and ENABLED are out of the prover's reach);
- `PromptsCarryTheIntent`: what the adapters of `Protocol` make of an intent is put
  together by `SelectSeq` and `FlattenSeq`, which take operators as parameters and
  which the provers cannot expand;
- the violated statements.

## 6. Not modelled

Backend: reads that change nothing, formatting, logging, metrics, notifications
(Nike broadcasts), e-mail sent after a purchase, license keys, the take-rate
lookup (any configured percentage), the sweep of per-tenant counters (nothing in
the repository writes them) and the budget warnings. The components with status
`not_modelled` in `PROJECT.json` are planned below or are plumbing.

Front end: painting, particles, ambient characters, colours, fonts, texts and
layout; the registry pages and the art (derived views of static data); the test of an API key
and the statistics of a lineup; the wallet card beyond its top-up notice and the
payout simulator; prompt texts and the parsing of an intent; the scores a
prediction pass computes (any of a set); the replay's speed. Code of libraries
(Phaser, React, zustand, Howler, the browser) is modelled from how it is used
and is marked external.

## 7. Plan

Done: the purchase with its ledger and lifecycle, the subscription mirror, the
budget daemon, managed-agent sessions with their event log, the front end, and
the proofs above. Next, in this order:

1. `BudgetGate`: `MaSession`'s gates composed with the flags of `Chronos`, so that
   creates admitted together overshoot by what one of them may spend at most.
2. `RefreshChain`: OAuth codes and refresh rotation; abstract specification "at
   most one live token per chain".
3. `Realtime`: tickets, connection registry, resume with replay; composed with
   `TicketStream` and `ChatStream`.
4. `KeyRotation`, `CircuitBreaker`, `FlagCache`: one cron, one breaker, one
   cache protocol each.
5. `ConnectMirror`, `Review`, `Upload`, `Deletion`: the remaining commerce and
   data lifecycles.
6. Proofs: the safety invariants of 1 to 4 in the style of the present ones (one
   inductive invariant per module, one lemma per action).
