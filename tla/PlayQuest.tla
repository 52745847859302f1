----------------------------- MODULE PlayQuest -----------------------------
(***************************************************************************)
(* Quest, dialogue and cinematic on /play: the zustand stores, the bridge  *)
(* that joins them to the Phaser game, and the dialogue overlay.           *)
(*                                                                         *)
(* A store write runs its subscribers before it returns, so one key press  *)
(* is a cascade of nested calls, played here call by call: the trigger     *)
(* just fired, a frame for every fireTrigger under way with the effect it  *)
(* comes to next, and what the outermost caller does when its trigger      *)
(* returns.  Nothing else runs meanwhile.  React effects run after the     *)
(* render and are steps of their own.                                      *)
(***************************************************************************)
EXTENDS Naturals, Sequences

CONSTANTS
  Steps,             \* the quest: <<[on, minChars, effects], ...>>
  Dialogues,         \* [id -> [start, nodes]]; a node is [choices, submit, next, effects]
  NpcIds,            \* who can be talked to in the village
  Overlay,           \* is DialogueOverlay mounted (GameHUD) or not (GameHUDLean)?
  MAX_TRIGGER_DEPTH,
  MaxMounts          \* bound: how often the canvas is mounted

Items == {"lumio_blueprint_v1"}

\* Where the quest's effects stand, <<step, position>>, and those of one kind.
EffectPlaces == UNION {{k} \X (1..Len(Steps[k].effects)) : k \in 1..Len(Steps)}
EffectAt(p) == Steps[p[1]].effects[p[2]]
PlacesOf(kind) == {p \in EffectPlaces : EffectAt(p)[1] = kind}

\* A node of a dialogue that exists.
IsNode(id, node) == id \in DOMAIN Dialogues /\ node \in DOMAIN Dialogues[id].nodes

\* lumio_onboarding: every reward is promised in one place, a step that waits for an item
\* stands right behind the one that awards it and asks for nothing more, and a cascade, in
\* which every level has a later step than the one around it, stays below the depth guard.
ASSUME QuestAssumption ==
  /\ Len(Steps) \in Nat /\ MAX_TRIGGER_DEPTH \in Nat /\ Len(Steps) < MAX_TRIGGER_DEPTH
  /\ \A k \in 1..Len(Steps) : Len(Steps[k].effects) \in Nat
  /\ \A p, q \in PlacesOf("award_item") : EffectAt(p)[2] = EffectAt(q)[2] => p = q
  /\ \A kind \in {"add_currency", "add_trust"} :
       \A p, q \in PlacesOf(kind) : EffectAt(p)[2] \in Nat /\ p = q
  /\ \A p \in PlacesOf("award_item") : EffectAt(p)[2] \in Items
  /\ \A p \in PlacesOf("open_dialogue") : IsNode(EffectAt(p)[2], EffectAt(p)[3])
  /\ \A i \in Items : \A k \in 1..Len(Steps) :
       Steps[k].on = <<"item_acquired", i>> =>
         /\ Steps[k].minChars = 0
         /\ \A p \in PlacesOf("award_item") : EffectAt(p)[2] = i => p[1] + 1 = k

\* Whatever a dialogue leads to is one of its nodes.
ASSUME DialoguesAssumption ==
  /\ Overlay \in BOOLEAN /\ "none" \notin DOMAIN Dialogues
  /\ IsNode("treasurer_greet", Dialogues["treasurer_greet"].start)
  /\ \A id \in DOMAIN Dialogues : \A n \in DOMAIN Dialogues[id].nodes :
       LET node == Dialogues[id].nodes[n] IN
       /\ n # "none" /\ Len(node.choices) \in Nat
       /\ {node.submit, node.next} \subseteq DOMAIN Dialogues[id].nodes \cup {"none"}
       /\ \A i \in 1..Len(node.choices) : IsNode(id, node.choices[i].next)

VARIABLES
  quest,     \* questStore: [status, step, submitted]
  goods,     \* inventoryStore and the quest store's worlds: [items, usd, trust, worlds]
  dialogue,  \* dialogueStore: [id, node, streaming, pending]
  screen,    \* uiStore and the overlay: [cinematic, typed, unseen]
  phaser,    \* [wired, lobby, cine, zoneEntered, mounts, talkedTo]; talkedTo is history
  trigger,   \* handed to fireTrigger and not matched yet: [on, chars], or NoTrigger
  frames,    \* the calls that apply effects, the innermost last: <<[step, at], ...>>
  caller     \* what follows when the outermost trigger returns: [of, id, node]

storeVars == <<quest, goods, dialogue, screen, phaser>>
callVars == <<trigger, frames, caller>>
playVars == <<storeVars, callVars>>

NoTrigger == [on |-> <<"none">>, chars |-> 0]
Trigger(on, chars) == [on |-> on, chars |-> chars]
NoCaller == [of |-> "none", id |-> "none", node |-> "none"]

\* _triggerDepth: the calls of fireTrigger that apply effects.
level == Len(frames)

\* No call is under way: the next event may be handled.
AtRest == trigger = NoTrigger /\ level = 0 /\ caller = NoCaller

NoDialogue == [id |-> "none", node |-> "none", streaming |-> FALSE, pending |-> <<>>]

NodeOf(d) == Dialogues[d.id].nodes[d.node]

\* What the overlay renders of a dialogue that moved to another node.
Rerender(d) ==
  screen' = IF <<d.id, d.node>> = <<dialogue.id, dialogue.node>> THEN screen
            ELSE [screen EXCEPT !.typed = FALSE, !.unseen = Overlay /\ d.id # "none"]

Reached(id, node) == Trigger(<<"dialogue_node_reached", id, node>>, 0)

\* The bridge reports a new currentNodeId; without it the caller's own trigger follows.
Announced(d, otherwise) ==
  IF phaser.wired /\ d.node # "none" /\ d.node # dialogue.node THEN Reached(d.id, d.node)
  ELSE otherwise

\* A write of the dialogue store.
MoveTo(d, otherwise) ==
  dialogue' = d /\ Rerender(d) /\ trigger' = Announced(d, otherwise)

\* The reducer's OPEN.
Opened(id, node) ==
  [id |-> id, node |-> node, streaming |-> FALSE,
   pending |-> Dialogues[id].nodes[node].effects]

(***************************************************************************)
(* The cascade.                                                            *)
(***************************************************************************)
\* A step of the quest is due: its trigger fired and its condition holds.
Due(q, t) ==
  /\ q.status = "active"
  /\ q.step < Len(Steps)
  /\ Steps[q.step + 1].on = t.on
  /\ t.chars >= Steps[q.step + 1].minChars

Advance(q) == [q EXCEPT !.step = @ + 1]

\* recordPromptSubmission, whether or not the step is due.
Noted(q, t) ==
  IF t.on[1] = "prompt_submitted" /\ q.status = "active" /\ q.step < Len(Steps)
  THEN [q EXCEPT !.submitted = TRUE] ELSE q

\* fireTrigger up to its effects: the step index moves before they are applied.
FireTrigger ==
  /\ trigger # NoTrigger /\ trigger' = NoTrigger
  /\ IF level < MAX_TRIGGER_DEPTH /\ Due(quest, trigger)
     THEN /\ quest' = Advance(Noted(quest, trigger))
          /\ frames' = Append(frames, [step |-> quest.step + 1, at |-> 1])
     ELSE /\ quest' = IF level < MAX_TRIGGER_DEPTH THEN Noted(quest, trigger) ELSE quest
          /\ UNCHANGED frames
  /\ UNCHANGED <<goods, dialogue, screen, phaser, caller>>

Unpaid == UNCHANGED <<quest, goods>>
NothingShown == UNCHANGED <<dialogue, screen, trigger>>

PlayCinematic ==
  /\ IF phaser.lobby # "active" THEN UNCHANGED <<phaser, screen>>
     ELSE /\ phaser' = [phaser EXCEPT !.lobby = "paused", !.cine = TRUE]
          /\ screen' = [screen EXCEPT !.cinematic = TRUE]
  /\ Unpaid /\ UNCHANGED <<dialogue, trigger>>

AwardUnnoticed(item) ==
  /\ goods' = [goods EXCEPT !.items[item] = @ + 1]
  /\ UNCHANGED <<quest, dialogue, screen, phaser, trigger>>

\* The pickup's own trigger follows in the same cascade.
Award(item) ==
  /\ goods' = [goods EXCEPT !.items[item] = @ + 1]
  /\ trigger' = Trigger(<<"item_acquired", item>>, 0)
  /\ UNCHANGED <<quest, dialogue, screen, phaser>>

\* What the bridge does with an effect the quest store hands on.
BridgeEffect(e) ==
  CASE e[1] = "play_cinematic" -> PlayCinematic
    [] e[1] = "award_item" -> Award(e[2])
    [] e[1] = "add_currency" ->
         goods' = [goods EXCEPT !.usd = @ + e[2]] /\ NothingShown /\ UNCHANGED <<quest, phaser>>
    [] e[1] = "open_dialogue" ->
         MoveTo(Opened(e[2], e[3]), NoTrigger) /\ Unpaid /\ UNCHANGED phaser
    [] e[1] = "stream_apollo_response" ->
         /\ dialogue' = [dialogue EXCEPT !.streaming = TRUE]
         /\ Unpaid /\ UNCHANGED <<screen, phaser, trigger>>
    [] OTHER -> Unpaid /\ NothingShown /\ UNCHANGED phaser

StoreEffects == {"unlock_world", "add_trust", "complete_quest"}

\* applyEffect: what the quest store does itself.
StoreEffect(e) ==
  /\ CASE e[1] = "unlock_world" ->
            goods' = [goods EXCEPT !.worlds = @ \union {e[2]}] /\ UNCHANGED quest
       [] e[1] = "add_trust" ->
            goods' = [goods EXCEPT !.trust = @ + e[2]] /\ UNCHANGED quest
       [] e[1] = "complete_quest" ->
            /\ quest' = IF quest.status = "active" THEN [quest EXCEPT !.status = "completed"]
                        ELSE quest
            /\ UNCHANGED goods
  /\ NothingShown /\ UNCHANGED phaser

Frame == frames[level]
EffectsLeft == Frame.at <= Len(Steps[Frame.step].effects)

\* The innermost call applies its next effect; nobody hears the bus without the bridge.
ApplyEffect ==
  /\ trigger = NoTrigger /\ level > 0 /\ EffectsLeft
  /\ LET e == EffectAt(<<Frame.step, Frame.at>>)
     IN IF e[1] \in StoreEffects THEN StoreEffect(e)
        ELSE IF phaser.wired THEN BridgeEffect(e)
        ELSE Unpaid /\ NothingShown /\ UNCHANGED phaser
  /\ frames' = [frames EXCEPT ![level].at = @ + 1]
  /\ UNCHANGED caller

\* fireTrigger's finally.
TriggerReturns ==
  /\ trigger = NoTrigger /\ level > 0 /\ ~EffectsLeft
  /\ frames' = SubSeq(frames, 1, level - 1)
  /\ UNCHANGED <<storeVars, trigger, caller>>

\* The handler of an event fires a trigger and goes on with c when it has returned.
Fires(t, c) == trigger' = t /\ caller' = c /\ UNCHANGED frames

ThenNothing == UNCHANGED <<frames, caller>>

(***************************************************************************)
(* The game canvas.                                                        *)
(***************************************************************************)
\* QuestBootstrap starts the catalog's quests on the first mount.
QuestStarted == [status |-> "active", step |-> 0, submitted |-> FALSE]

PlayInit ==
  /\ quest = QuestStarted
  /\ goods = [items |-> [i \in Items |-> 0], usd |-> 0, trust |-> 0, worlds |-> {}]
  /\ dialogue = NoDialogue
  /\ screen = [cinematic |-> FALSE, typed |-> FALSE, unseen |-> FALSE]
  /\ phaser = [wired |-> FALSE, lobby |-> "off", cine |-> FALSE,
               zoneEntered |-> FALSE, mounts |-> 0, talkedTo |-> "none"]
  /\ trigger = NoTrigger /\ frames = <<>> /\ caller = NoCaller

\* wireBridge in PhaserCanvas; from now on HUD events take the bus.
MountCanvas ==
  /\ AtRest /\ ~phaser.wired /\ phaser.mounts < MaxMounts
  /\ phaser' = [wired |-> TRUE, lobby |-> "off", cine |-> FALSE,
                zoneEntered |-> FALSE, mounts |-> phaser.mounts + 1, talkedTo |-> "none"]
  /\ UNCHANGED <<quest, goods, dialogue, screen, callVars>>

\* Leaving the route: the bridge is torn down and the game destroyed, the stores stay.  The
\* overlay goes too and, back on the page, types and reports an open node from the start,
\* before or after the next canvas is wired.
UnmountCanvas ==
  /\ AtRest /\ phaser.wired
  /\ phaser' = [phaser EXCEPT !.wired = FALSE, !.lobby = "off", !.cine = FALSE]
  /\ screen' = [screen EXCEPT !.typed = FALSE, !.unseen = Overlay /\ dialogue.id # "none"]
  /\ UNCHANGED <<quest, goods, dialogue, callVars>>

LobbyReady ==
  /\ AtRest /\ phaser.wired /\ phaser.lobby = "off"
  /\ phaser' = [phaser EXCEPT !.lobby = "active"]
  /\ UNCHANGED <<quest, goods, dialogue, screen, callVars>>

\* treasurerDialogueBridge listens on the window only.
TreasurerHears(surface, npc) == surface = "window" /\ npc = "treasurer"

\* NPC.bindInteractKey emits on the game's bus.  The E key listens on the window
\* and keeps working in a paused lobby.
Interact(npc) ==
  /\ AtRest /\ phaser.lobby \in {"active", "paused"}
  /\ phaser' = [phaser EXCEPT !.talkedTo = npc]
  /\ Fires(Trigger(<<"npc_interact", npc>>, 0),
           IF TreasurerHears("bus", npc) THEN [NoCaller EXCEPT !.of = "greet"] ELSE NoCaller)
  /\ UNCHANGED <<quest, goods, dialogue, screen>>

\* The flag is a field of the scene and is never reset.
EnterCaravanZone ==
  /\ AtRest /\ phaser.lobby = "active" /\ ~phaser.zoneEntered
  /\ phaser' = [phaser EXCEPT !.zoneEntered = TRUE]
  /\ Fires(Trigger(<<"zone_enter", "caravan_arrival_zone">>, 0), NoCaller)
  /\ UNCHANGED <<quest, goods, dialogue, screen>>

\* finishCinematic: the event (trigger, then endCinematic), resume, stop.
FinishCinematic ==
  /\ AtRest /\ phaser.cine
  /\ Fires(Trigger(<<"cinematic_complete", "mini_builder">>, 0), [NoCaller EXCEPT !.of = "film"])
  /\ UNCHANGED storeVars

(***************************************************************************)
(* The dialogue overlay.                                                   *)
(***************************************************************************)
Shown == AtRest /\ Overlay /\ dialogue.id # "none"

\* The effect after a render: the node is reported once more (over the bus or
\* the window, both of which end in fireTrigger), then pending effects are
\* emitted, which nobody applies, and cleared.
ReportNode ==
  /\ Shown /\ (screen.unseen \/ dialogue.pending # <<>>)
  /\ Fires(IF screen.unseen THEN Reached(dialogue.id, dialogue.node) ELSE NoTrigger,
           [of |-> "report", id |-> dialogue.id, node |-> dialogue.node])
  /\ UNCHANGED storeVars

\* The outermost trigger has returned.
CallerGoesOn ==
  /\ trigger = NoTrigger /\ level = 0 /\ caller # NoCaller /\ caller' = NoCaller
  /\ CASE caller.of = "film" ->
            /\ screen' = [screen EXCEPT !.cinematic = FALSE]
            /\ phaser' = [phaser EXCEPT !.lobby = "active", !.cine = FALSE]
            /\ UNCHANGED <<dialogue, trigger>>
       [] caller.of = "report" ->
            /\ IF caller.id = dialogue.id /\ caller.node = dialogue.node
               THEN /\ screen' = [screen EXCEPT !.unseen = FALSE]
                    /\ dialogue' = [dialogue EXCEPT !.pending = <<>>]
               ELSE UNCHANGED <<screen, dialogue>>
            /\ UNCHANGED <<phaser, trigger>>
       [] caller.of = "greet" ->
            /\ MoveTo(Opened("treasurer_greet", Dialogues["treasurer_greet"].start), NoTrigger)
            /\ UNCHANGED phaser
  /\ UNCHANGED <<quest, goods, frames>>

FinishTyping ==
  /\ Shown /\ ~screen.unseen /\ ~screen.typed
  /\ screen' = [screen EXCEPT !.typed = TRUE]
  /\ UNCHANGED <<quest, goods, dialogue, phaser, callVars>>

\* The condition of a choice, compiled and evaluated: trust.apollo < trustBelow.
Holds(choice) == goods.trust < choice.trustBelow

VisibleChoices == {i \in 1..Len(NodeOf(dialogue).choices) : Holds(NodeOf(dialogue).choices[i])}

GoTo(node, otherwise) ==
  /\ MoveTo([dialogue EXCEPT !.node = node, !.pending = Dialogues[dialogue.id].nodes[node].effects],
            otherwise)
  /\ ThenNothing /\ UNCHANGED <<quest, goods, phaser>>

SelectChoice(i) ==
  /\ Shown /\ screen.typed
  /\ NodeOf(dialogue).submit = "none" /\ i \in VisibleChoices
  /\ GoTo(NodeOf(dialogue).choices[i].next, NoTrigger)

Continue ==
  /\ Shown /\ screen.typed
  /\ NodeOf(dialogue).submit = "none" /\ VisibleChoices = {} /\ NodeOf(dialogue).next # "none"
  /\ GoTo(NodeOf(dialogue).next, NoTrigger)

\* BusBridge turns what the window hears into triggers.
WindowEvent(on, chars) == IF phaser.wired THEN NoTrigger ELSE Trigger(on, chars)

\* PromptChallengeNode: the store moves first; then the trigger request goes to
\* the bus, where nobody listens for it, or to the window, where BusBridge does.
SubmitChallenge ==
  /\ Shown /\ screen.typed /\ ~dialogue.streaming
  /\ NodeOf(dialogue).submit # "none"
  /\ GoTo(NodeOf(dialogue).submit, WindowEvent(<<"prompt_submitted", "lumio_brief">>, 20))

CloseDialogue ==
  /\ Shown
  /\ dialogue' = NoDialogue /\ Rerender(NoDialogue)
  /\ UNCHANGED <<quest, goods, phaser, callVars>>

PlayNext ==
  \/ FireTrigger \/ ApplyEffect \/ TriggerReturns \/ CallerGoesOn
  \/ MountCanvas \/ UnmountCanvas \/ LobbyReady
  \/ \E npc \in NpcIds : Interact(npc)
  \/ EnterCaravanZone \/ FinishCinematic
  \/ ReportNode \/ FinishTyping
  \/ \E i \in 1..3 : SelectChoice(i)
  \/ Continue \/ SubmitChallenge \/ CloseDialogue

PlaySpec == PlayInit /\ [][PlayNext]_playVars

(***************************************************************************)
(* Properties.                                                             *)
(***************************************************************************)
AllNodes == UNION {{Dialogues[id].nodes[n] : n \in DOMAIN Dialogues[id].nodes} : id \in DOMAIN Dialogues}

NodeNames == UNION {DOMAIN Dialogues[id].nodes : id \in DOMAIN Dialogues}

QuestStates == [status : {"active", "completed"}, step : 0..Len(Steps), submitted : BOOLEAN]

GoodsStates ==
  [items : [Items -> Nat], usd : Nat, trust : Nat,
   worlds : SUBSET {EffectAt(p)[2] : p \in PlacesOf("unlock_world")}]

\* None, or a dialogue that exists, at one of its nodes.
DialogueStates ==
  {d \in [id : DOMAIN Dialogues \cup {"none"}, node : NodeNames \cup {"none"},
          streaming : BOOLEAN, pending : {n.effects : n \in AllNodes} \cup {<<>>}] :
     IF d.id = "none" THEN d.node = "none" ELSE IsNode(d.id, d.node)}

ScreenStates == [cinematic : BOOLEAN, typed : BOOLEAN, unseen : BOOLEAN]

PhaserStates ==
  [wired : BOOLEAN, lobby : {"off", "active", "paused"}, cine : BOOLEAN, zoneEntered : BOOLEAN,
   mounts : Nat, talkedTo : NpcIds \cup {"none"}]

CallFrames == [step : Nat, at : Nat]

PlayTypeOK ==
  /\ quest \in QuestStates /\ goods \in GoodsStates /\ dialogue \in DialogueStates
  /\ screen \in ScreenStates /\ phaser \in PhaserStates
  /\ frames \in Seq(CallFrames) /\ level <= MAX_TRIGGER_DEPTH
  /\ caller # NoCaller => caller.of \in {"film", "report", "greet"}

\* An awarded item has been noticed: when the stores have settled, the quest never waits for
\* the acquisition of something already in the satchel, although the award and the step that
\* waits for it are two nested calls of one cascade (questStore's ADR-002).
AwardNeverMissed ==
  \A i \in Items :
    AtRest /\ quest.status = "active" /\ quest.step < Len(Steps) /\ goods.items[i] > 0
      => Steps[quest.step + 1].on # <<"item_acquired", i>>

\* The player has nothing of a kind, or what one effect of the quest gives of it.
PaidAtMostOnce(kind, amount) == amount # 0 => \E p \in PlacesOf(kind) : amount = EffectAt(p)[2]

\* Nodes are reported twice, keys are pressed during the cinematic, the canvas
\* is mounted again: the rewards are still paid at most once, at any moment of a cascade.
RewardsPaidOnce ==
  /\ \A i \in Items : goods.items[i] <= 1
  /\ PaidAtMostOnce("add_currency", goods.usd) /\ PaidAtMostOnce("add_trust", goods.trust)

\* The lobby is paused exactly while the cinematic it made room for runs.
LobbyPausedForCinematic == (phaser.lobby = "paused") <=> phaser.cine

=============================================================================
