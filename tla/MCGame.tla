------------------------------- MODULE MCGame -------------------------------
(***************************************************************************)
(* The browser game: the constants its components are checked with, and    *)
(* one specification that runs any one of them. The components share no    *)
(* state the models keep, so a behaviour chooses the part that moves and   *)
(* leaves the others as they start; the states of the run are those of the *)
(* parts added up, not multiplied.                                         *)
(***************************************************************************)
EXTENDS ChatInput, PlayQuest, ChatStream, Scenes, Cinematic, Audio, Avatar, Shop, Workshop, Worlds

CONSTANT Parts    \* the components a run checks
VARIABLE part     \* the one that moves

----------------------------------------------------------------------------
(* Values of the constants.                                                *)

LumioOnboarding == <<
  [on |-> <<"npc_interact", "apollo">>, minChars |-> 0,
   effects |-> <<<<"open_dialogue", "apollo_intro", "greet">>>>],
  [on |-> <<"dialogue_node_reached", "apollo_intro", "prompt_brief">>, minChars |-> 0,
   effects |-> <<<<"push_toast">>>>],
  [on |-> <<"prompt_submitted", "lumio_brief">>, minChars |-> 20,
   effects |-> <<<<"stream_apollo_response">>>>],
  [on |-> <<"dialogue_node_reached", "apollo_intro", "builder_cinematic">>, minChars |-> 0,
   effects |-> <<<<"play_cinematic">>>>],
  [on |-> <<"cinematic_complete", "mini_builder">>, minChars |-> 0,
   effects |-> <<<<"award_item", "lumio_blueprint_v1">>, <<"add_trust", 10>>,
                 <<"add_currency", 5>>>>],
  [on |-> <<"item_acquired", "lumio_blueprint_v1">>, minChars |-> 0,
   effects |-> <<<<"push_toast">>, <<"unlock_world", "cyberpunk_shanghai">>>>],
  [on |-> <<"zone_enter", "caravan_arrival_zone">>, minChars |-> 0,
   effects |-> <<<<"push_toast">>>>],
  [on |-> <<"npc_interact", "caravan_vendor">>, minChars |-> 0,
   effects |-> <<<<"open_dialogue", "caravan_vendor_greet", "greet">>>>],
  [on |-> <<"dialogue_node_reached", "caravan_vendor_greet", "farewell">>, minChars |-> 0,
   effects |-> <<<<"complete_quest">>, <<"push_toast">>>>] >>

To(n) == [next |-> n, trustBelow |-> 99]
Inner(cs, n, es) == [choices |-> cs, submit |-> "none", next |-> n, effects |-> es]

ShippedDialogues == [
  apollo_intro |-> [start |-> "greet", nodes |-> [
    greet |-> Inner(<<To("prompt_brief"), [next |-> "lore", trustBelow |-> 5]>>, "none", <<>>),
    lore |-> Inner(<<To("prompt_brief")>>, "none", <<>>),
    prompt_brief |-> [choices |-> <<>>, submit |-> "builder_cinematic", next |-> "none",
                      effects |-> <<>>],
    builder_cinematic |-> Inner(<<>>, "post_cinematic", <<<<"play_cinematic">>>>),
    post_cinematic |-> Inner(<<To("reward")>>, "none", <<>>),
    reward |-> Inner(<<>>, "end", <<<<"award_item", "lumio_blueprint_v1">>, <<"add_trust", 10>>>>),
    end |-> Inner(<<>>, "none", <<<<"complete_quest">>, <<"unlock_world", "caravan_route">>>>)]],
  caravan_vendor_greet |-> [start |-> "greet", nodes |-> [
    greet |-> Inner(<<To("trade_intro"), To("protocol_explain"), To("farewell")>>, "none", <<>>),
    trade_intro |-> Inner(<<To("protocol_explain"), To("farewell")>>, "none", <<>>),
    protocol_explain |-> Inner(<<To("farewell")>>, "none", <<>>),
    farewell |-> Inner(<<>>, "none", <<<<"set_variable">>>>)]],
  treasurer_greet |-> [start |-> "greet", nodes |-> [
    greet |-> Inner(<<To("end")>>, "none", <<>>), end |-> Inner(<<>>, "none", <<>>)]]]

Npcs == {"apollo", "caravan_vendor", "treasurer"}

ServerScripts == { <<"delta", "tool_call", "delta", "done">>, <<"started", "errored">> }

TypedLines == {"one", "two", "three"}

EveryScene == Worlds \union DOMAIN Interiors

AllScenes == DOMAIN Lives

\* A free ware and two that cost something.
ThreeWares == [advisor |-> 0, blueprint |-> 2, clinic |-> 3]
TwoGrants == {2, 3}

WorkshopTiers == {"medium", "large"}
WorkshopVendors == {"anthropic", "google"}
WorkshopKeys == {"key"}

ThreeWorlds == <<"medieval_desert", "cyberpunk_shanghai", "steampunk_victorian">>

----------------------------------------------------------------------------
(* The composition.                                                        *)

gameVars == <<part, playVars, chatVars, inputVars, scenesVars, reuseVars,
              cinematicVars, audioVars, avatarVars, shopVars, workshopVars, worldsVars>>

\* The part p moves and no other does.
Only(p) ==
  /\ part = p /\ UNCHANGED part
  /\ p # "quest" => UNCHANGED playVars
  /\ p # "chat" => UNCHANGED chatVars
  /\ p # "keyboard" => UNCHANGED inputVars
  /\ p # "gates" => UNCHANGED scenesVars
  /\ p # "visits" => UNCHANGED reuseVars
  /\ p # "film" => UNCHANGED cinematicVars
  /\ p # "sound" => UNCHANGED audioVars
  /\ p # "avatar" => UNCHANGED avatarVars
  /\ p # "shop" => UNCHANGED shopVars
  /\ p # "workshop" => UNCHANGED workshopVars
  /\ p # "worlds" => UNCHANGED worldsVars

\* Parts that may start in several states start in one of them when they do not move.
GameInit ==
  /\ part \in Parts
  /\ ScenesInit
  /\ part # "gates" => world.scene = "ApolloVillage" /\ world.polls = 1
  /\ WorldsInit /\ (part # "worlds" => storage)
  /\ PlayInit /\ ChatInit /\ InputInit /\ ReuseInit /\ CinematicInit /\ AudioInit
  /\ AvatarInit /\ ShopInit /\ WorkshopInit

GameNext ==
  \/ Only("quest") /\ PlayNext
  \/ Only("chat") /\ ChatNext
  \/ Only("keyboard") /\ InputNext
  \/ Only("gates") /\ ScenesNext
  \/ Only("visits") /\ ReuseNext
  \/ Only("film") /\ CinematicNext
  \/ Only("sound") /\ AudioNext
  \/ Only("avatar") /\ AvatarNext
  \/ Only("shop") /\ ShopNext
  \/ Only("workshop") /\ WorkshopNext
  \/ Only("worlds") /\ WorldsNext

GameSpec == GameInit /\ [][GameNext]_gameVars

----------------------------------------------------------------------------
(* What the components promise together, where several of them carry one   *)
(* promise: the parts that pay, show, sound and spend.                     *)

\* The quest pays once, misses no award and pauses the lobby only for its cinematic, and its
\* stores keep their types (questStore, gameBridge).
QuestPaysOnce == PlayTypeOK /\ AwardNeverMissed /\ RewardsPaidOnce /\ LobbyPausedForCinematic

\* A streamed answer is read once, in order, and ends, in a chat that keeps no more messages
\* than its cap and retries no more than its bound (BuilderStreamConsumer, chatStore).
AnswerReadOnce == ChatTypeOK /\ DeltasReadInOrder /\ DoneIsFinal

\* Every way out of a scene leads to one other, which the player enters clear of its gates
\* and finds as new (TransitionZone and the scenes' create and shutdown).
DoorsLeadOnce == ScenesTypeOK /\ OneDestination /\ GateArrivalClear /\ VisitStartsFresh

\* A cinematic that ends by its fade has shown everything, and it ends once, whatever frames
\* are lost and whichever of its two clocks is late (MiniBuilderCinematicScene).
FilmInCharge == CompletedOncePerReveal /\ EverythingShownBeforeTheFade

\* What is heard and seen is what the stores ask for: one loop at its volume, the player
\* where it was reported and looking where it went, the switcher on the world in force, a
\* toast about an item that will go away (audioEngine, Player, theme_runtime, InventoryToast).
SeenAndHeardAsStored ==
  /\ AudioTypeOK /\ OneLoopRemains /\ LoopFollowsTheMixer
  /\ ReportsAddUp /\ LooksWhereItWent
  /\ SwitcherMarksTheTheme
  /\ ToastInSightWillGo

\* What is spent is accounted for: the workshop takes a run of the user's own key for each spawn
\* that made a call and keeps key, mode and lineup in step, and a ware is paid for at its price
\* (apolloBuilderDialogueStore, TheatricalSpawnAnimation, ShopModal).
SpendingAddsUp ==
  /\ WorkshopTypeOK
  /\ RunsAccountForCalls /\ OneCallPerSpawn /\ KeyInOnePlace /\ VendorLineup
  /\ PaidForWhatWasBought

\* No step goes behind the user's back: money is spent only on a live call that was chosen,
\* and a reload keeps the world.
OnlyAsChosen == LiveCallWasChosen /\ ReloadKeepsTheWorld
=============================================================================
