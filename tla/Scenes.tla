------------------------------- MODULE Scenes -------------------------------
(***************************************************************************)
(* The world of /play: three worlds joined by gates, the places entered    *)
(* from them, and how one Phaser scene hands over to the next. A scene is  *)
(* left in two steps: a fade out starts and a callback is registered on    *)
(* the camera; when the fade completes, every registered callback runs.    *)
(*                                                                         *)
(* The player stands on one of the spots a scene's triggers and spawns     *)
(* name; distances are those of the code. Dialogue is in PlayQuest.        *)
(***************************************************************************)
EXTENDS Integers, Sequences, FiniteSets, SequencesExt, FiniteSetsExt

CONSTANTS
  StartScenes,   \* the village after boot, or a scene the debug hook starts
  PollsSeen,     \* how many polls of one frame see a key press (Phaser clears it at the first)
  MAX_CALLBACKS  \* bound on callbacks registered during one fade

VARIABLE world   \* [scene, pos, arrived, key, polls, prompt, choice, cool, busy, latched, fade, next]

scenesVars == <<world>>

Near(p, q, r) == (p[1] - q[1]) * (p[1] - q[1]) + (p[2] - q[2]) * (p[2] - q[2]) <= r * r

GATE_RADIUS == 96
LANDMARK_INTERACT_RADIUS_PX == 128
STEP_DURING_FADE == 80     \* 160 px/s for 500 ms

(***************************************************************************)
(* Triggers. The places entered from a world are left by walking off their *)
(* edge, back to the world with a spawn of their own.                      *)
(***************************************************************************)
Gate(at, dest, spawn, loading) ==
  [at |-> at, to |-> [dest |-> dest, spawn |-> spawn, via |-> "gate", loading |-> loading]]
Landmark(name, at, kind, dest, spawn) ==
  [name |-> name, at |-> at, kind |-> kind,
   to |-> [dest |-> dest, spawn |-> spawn, via |-> kind, loading |-> FALSE]]
Exit(at, dest, spawn) ==
  [at |-> at, to |-> [dest |-> dest, spawn |-> spawn, via |-> "exit", loading |-> FALSE]]

ApolloMarketplaceBazaar == Exit(<<704, 770>>, "ApolloVillage", <<1080, 700>>)
ApolloOasis == Exit(<<704, 770>>, "ApolloVillage", <<490, 700>>)
ApolloTempleInterior == Exit(<<704, 770>>, "ApolloVillage", <<704, 700>>)
CaravanWayhouseInterior == Exit(<<704, 770>>, "CaravanRoad", <<440, 530>>)
CaravanForestCrossroad == Exit(<<704, 770>>, "CaravanRoad", <<1180, 480>>)
CaravanMountainPass == Exit(<<1370, 580>>, "CaravanRoad", <<1180, 460>>)
CyberSkyscraperLobby == Exit(<<704, 770>>, "CyberpunkShanghai", <<130, 530>>)
CyberRooftop == Exit(<<300, 770>>, "CyberpunkShanghai", <<700, 320>>)
CyberUndergroundAlley == Exit(<<704, 770>>, "CyberpunkShanghai", <<704, 700>>)
CyberServerRoom == Exit(<<704, 770>>, "CyberpunkShanghai", <<1260, 700>>)

Interiors ==
  [ApolloMarketplaceBazaar |-> ApolloMarketplaceBazaar, ApolloOasis |-> ApolloOasis,
   ApolloTempleInterior |-> ApolloTempleInterior,
   CaravanWayhouseInterior |-> CaravanWayhouseInterior,
   CaravanForestCrossroad |-> CaravanForestCrossroad, CaravanMountainPass |-> CaravanMountainPass,
   CyberSkyscraperLobby |-> CyberSkyscraperLobby, CyberRooftop |-> CyberRooftop,
   CyberUndergroundAlley |-> CyberUndergroundAlley, CyberServerRoom |-> CyberServerRoom]

VillageLandmarks ==
  <<Landmark("marketplace_stall", <<1010, 600>>, "dual", "ApolloMarketplaceBazaar", <<704, 720>>),
    Landmark("builder_workshop", <<330, 560>>, "ui", "", <<0, 0>>),
    Landmark("registry_pillar", <<1180, 460>>, "ui", "", <<0, 0>>),
    Landmark("trust_shrine", <<640, 540>>, "dual", "ApolloOasis", <<704, 720>>),
    Landmark("temple_arch", <<820, 400>>, "ambient", "ApolloTempleInterior", <<704, 720>>)>>

RoadPlaces ==
  <<Landmark("wayhouse_interior", <<440, 480>>, "ambient", "CaravanWayhouseInterior", <<704, 720>>),
    Landmark("forest_crossroad", <<1280, 380>>, "ambient", "CaravanForestCrossroad", <<704, 720>>),
    Landmark("mountain_pass", <<660, 580>>, "ambient", "CaravanMountainPass", <<220, 580>>)>>

ShanghaiLandmarks ==
  <<Landmark("cyber_marketplace", <<1180, 460>>, "ui", "", <<0, 0>>),
    Landmark("bank_treasury", <<130, 480>>, "ui", "", <<0, 0>>),
    Landmark("admin_hall", <<1260, 760>>, "ui", "", <<0, 0>>),
    Landmark("protocol_gateway", <<320, 720>>, "ui", "", <<0, 0>>)>>

VillageGates == <<Gate(<<1372, 480>>, "CaravanRoad", <<160, 480>>, TRUE)>>

RoadGates ==
  <<Gate(<<36, 480>>, "ApolloVillage", <<1180, 480>>, TRUE),
    Gate(<<1372, 480>>, "CyberpunkShanghai", <<160, 640>>, TRUE)>>

ShanghaiGates ==
  <<Gate(<<36, 240>>, "CaravanRoad", <<1180, 480>>, TRUE),
    Gate(<<1390, 200>>, "CyberSkyscraperLobby", <<704, 720>>, TRUE),
    Gate(<<820, 100>>, "CyberRooftop", <<300, 720>>, TRUE),
    Gate(<<700, 700>>, "CyberUndergroundAlley", <<704, 720>>, TRUE),
    Gate(<<820, 480>>, "CyberServerRoom", <<704, 720>>, FALSE)>>

Gates == [ApolloVillage |-> VillageGates, CaravanRoad |-> RoadGates,
          CyberpunkShanghai |-> ShanghaiGates]
Landmarks == [ApolloVillage |-> VillageLandmarks, CaravanRoad |-> RoadPlaces,
              CyberpunkShanghai |-> ShanghaiLandmarks]
DefaultSpawn == [ApolloVillage |-> <<704, 640>>, CaravanRoad |-> <<96, 480>>,
                 CyberpunkShanghai |-> <<160, 640>>]

Worlds == DOMAIN Gates
Spots(s) ==
  IF s \in Worlds
  THEN {DefaultSpawn[s]} \union {g.at : g \in ToSet(Gates[s])}
         \union {l.at : l \in ToSet(Landmarks[s])}
  ELSE {Interiors[s].at}

(***************************************************************************)
(* Starting a scene: init resets its flags, create spawns the player.      *)
(***************************************************************************)
EnterScene(w, entry) ==
  [w EXCEPT !.scene = IF entry.loading THEN "Loading" ELSE entry.dest,
            !.pos = entry.spawn, !.arrived = entry.via, !.key = "up", !.prompt = "",
            !.choice = 0, !.cool = {}, !.busy = FALSE, !.latched = {}, !.fade = <<>>,
            !.next = <<[entry EXCEPT !.loading = FALSE]>>]

\* fadeOut and once('camerafadeoutcomplete').
FadeTo(w, entry) == [w EXCEPT !.fade = Append(@, entry)]

(***************************************************************************)
(* One frame in which the E key was pressed: the scene polls it for its    *)
(* landmarks or places, then each gate the player is near polls it.        *)
(***************************************************************************)
InReach(w, radius) ==
  {i \in DOMAIN Landmarks[w.scene] : LET l == Landmarks[w.scene][i]
                                     IN Near(w.pos, l.at, radius) /\ l.name \notin w.cool}
FirstInReach(w, radius) == Landmarks[w.scene][Min(InReach(w, radius))]

\* checkLandmarkInteraction of the village.
VillageLandmark(w) ==
  IF InReach(w, LANDMARK_INTERACT_RADIUS_PX) = {} THEN w
     ELSE LET l == FirstInReach(w, LANDMARK_INTERACT_RADIUS_PX)
              c == [w EXCEPT !.cool = @ \union {l.name}]
          IN CASE l.kind = "ambient" -> FadeTo(c, l.to)
               [] l.kind = "dual" -> [c EXCEPT !.prompt = l.name, !.choice = 0]
               [] OTHER -> c

ShanghaiLandmark(w) ==
  IF InReach(w, LANDMARK_INTERACT_RADIUS_PX) = {} THEN w
  ELSE [w EXCEPT !.cool = @ \union {FirstInReach(w, LANDMARK_INTERACT_RADIUS_PX).name}]

RoadPlace(w) ==
  IF InReach(w, GATE_RADIUS) = {} THEN w
  ELSE LET l == FirstInReach(w, GATE_RADIUS)
       IN FadeTo([w EXCEPT !.busy = TRUE, !.cool = @ \union {l.name}], l.to)

\* TransitionZone.update of every gate: those not latched that the player is near fire.  Which
\* is first does not matter, as several callbacks are as far as the model goes.
Firing(w) == {g \in ToSet(Gates[w.scene]) : g.at \notin w.latched /\ Near(w.pos, g.at, GATE_RADIUS)}
GateUpdate(w) ==
  [w EXCEPT !.latched = @ \union {g.at : g \in Firing(w)},
            !.fade = @ \o SetToSeq({g.to : g \in Firing(w)})]

PollsLandmarks(w) == w.scene # "CaravanRoad" \/ ~w.busy
PollsGates(w) == w.scene # "CaravanRoad" \/ ~w.busy

EFrame ==
  /\ world.key = "pressed" /\ world.scene \in Worlds /\ world.prompt = ""
  /\ Len(world.fade) < MAX_CALLBACKS
  /\ LET first == PollsLandmarks(world)
         l == IF ~first THEN world
              ELSE CASE world.scene = "ApolloVillage" -> VillageLandmark(world)
                     [] world.scene = "CaravanRoad" -> RoadPlace(world)
                     [] OTHER -> ShanghaiLandmark(world)
         seen == ~first \/ world.polls > 1
     IN world' = [(IF seen /\ PollsGates(l) THEN GateUpdate(l) ELSE l) EXCEPT !.key = "held"]

PressE == world.key = "up" /\ world' = [world EXCEPT !.key = "pressed"]
ReleaseE == world.key # "up" /\ world' = [world EXCEPT !.key = "up"]

\* The village's prompt: arrows toggle, Enter confirms, Escape dismisses.
PromptArrow == world.prompt # "" /\ world' = [world EXCEPT !.choice = 1 - @]
PromptDismiss == world.prompt # "" /\ world' = [world EXCEPT !.prompt = ""]
PromptConfirm ==
  /\ world.prompt # "" /\ Len(world.fade) < MAX_CALLBACKS
  /\ LET l == CHOOSE m \in ToSet(VillageLandmarks) : m.name = world.prompt
         d == [world EXCEPT !.prompt = ""]
     IN world' = IF world.choice = 0 THEN d ELSE FadeTo(d, l.to)

Cooldown == world.cool # {} /\ world' = [world EXCEPT !.cool = {}]

Walk ==
  /\ world.scene \in Worlds \union DOMAIN Interiors
  /\ \E p \in Spots(world.scene) \ {world.pos} :
       /\ world.fade = <<>> \/ Near(world.pos, p, STEP_DURING_FADE)
       /\ world' = [world EXCEPT !.pos = p, !.arrived = ""]

TriggerExitEveryFrame ==
  /\ world.scene \in DOMAIN Interiors /\ world.pos = Interiors[world.scene].at
  /\ Len(world.fade) < MAX_CALLBACKS
  /\ world' = FadeTo([world EXCEPT !.busy = TRUE], Interiors[world.scene].to)

TriggerExit ==
  /\ world.scene \in DOMAIN Interiors /\ world.pos = Interiors[world.scene].at
  /\ ~world.busy
  /\ world' = FadeTo([world EXCEPT !.busy = TRUE], Interiors[world.scene].to)

\* LoadingScene: after MIN_DISPLAY_MS the next scene, once.
LoadingUpdate ==
  /\ world.scene = "Loading" /\ ~world.busy
  /\ world' = FadeTo([world EXCEPT !.busy = TRUE], world.next[1])

\* Every callback starts its scene; with several, several worlds run at once, and
\* the model goes no further.
FadeComplete ==
  /\ world.fade # <<>>
  /\ world' = IF Len(world.fade) = 1 THEN EnterScene(world, world.fade[1])
              ELSE [world EXCEPT !.scene = "several", !.prompt = "", !.fade = <<>>]

ASSUME ScenesAssumption == StartScenes \subseteq Worlds \union DOMAIN Interiors

ScenesInit ==
  \E s \in StartScenes, n \in PollsSeen :
    world = [scene |-> s, pos |-> IF s \in Worlds THEN DefaultSpawn[s] ELSE <<704, 720>>,
             arrived |-> "", key |-> "up", polls |-> n, prompt |-> "", choice |-> 0,
             cool |-> {}, busy |-> FALSE, latched |-> {}, fade |-> <<>>, next |-> <<>>]

ScenesNext ==
  \/ PressE \/ ReleaseE \/ EFrame \/ PromptArrow \/ PromptDismiss \/ PromptConfirm
  \/ Cooldown \/ Walk \/ TriggerExit \/ LoadingUpdate \/ FadeComplete

ScenesSpec == ScenesInit /\ [][ScenesNext]_scenesVars

(***************************************************************************)
(* Properties.                                                             *)
(***************************************************************************)
ScenesTypeOK ==
  /\ world.scene \in Worlds \union DOMAIN Interiors \union {"Loading", "several"}
  /\ world.key \in {"up", "pressed", "held"} /\ world.choice \in 0..1
  /\ world.prompt # "" => world.scene = "ApolloVillage"

\* However many frames and key presses a fade lasts, a scene hands over to one
\* scene. The village has no flag that says it is being left.
OneDestination == Len(world.fade) > 1 => world.scene = "ApolloVillage"

\* A player who has come through a gate stands clear of the gates of the world
\* reached ("the player does not immediately re-trigger the return gate").
GateArrivalClear ==
  world.arrived = "gate" /\ world.scene \in Worlds =>
    \A g \in ToSet(Gates[world.scene]) : ~Near(world.pos, g.at, GATE_RADIUS)

(***************************************************************************)
(* A scene visited again.  Phaser makes one object per scene and runs      *)
(* init, create and the SHUTDOWN handler on it at every visit, so what a   *)
(* visit leaves in a field the next visit finds. For each scene: what      *)
(* create fills, what the player's actions set while it runs, what init    *)
(* and SHUTDOWN reset.                                                     *)
(*                                                                         *)
(* A field create assigns is overwritten and cannot be stale; the sets     *)
(* below hold the others: lists that are appended to, handles that are     *)
(* kept, and flags that are set once.                                      *)
(***************************************************************************)
CONSTANTS VisitedScenes, MAX_VISITS

VARIABLE reuse   \* [scene, phase, dirty: scene -> fields, visits]

reuseVars == <<reuse>>

Polished == {"sorter", "ambientFx", "dropShadows", "scenePolish"}
Lit == {"sorter", "ambientFx", "dropShadows", "idleBreathingTweens", "pointLights", "dayNight",
        "interWorldGates"}

VillageFills == Lit \union {"landmarkHalos", "landmarkBindings", "landmarkVisuals",
                            "questIndicators", "ambientNpcs", "unsubscribers"}
VillageSets == {"lastLandmarkEmitAt", "landmarkPrompt", "caravanZoneEntered"}
VillageResets == VillageFills \union {"lastLandmarkEmitAt", "landmarkPrompt"}
VillageInits == {"landmarkPrompt", "spawnOverride"}

RoadFills == Lit \union {"autumnLeavesOverlay", "subAreaBindings"}
RoadSets == {"lastSubAreaEmitAt", "subAreaTransitioning", "arrivalEmitted"}
RoadResets == RoadFills \union {"lastSubAreaEmitAt"}
RoadInits == {"subAreaTransitioning", "spawnOverride"}

ShanghaiFills == (Lit \ {"ambientFx"}) \union {"rainFx", "smogFx", "smogWispsOverlay",
                                               "landmarkHalos", "landmarkBindings", "landmarkVisuals"}
ShanghaiSets == {"lastLandmarkEmitAt"}
ShanghaiResets == ShanghaiFills \union ShanghaiSets

BazaarFills == Polished
BazaarResets == Polished
OasisFills == Polished
OasisResets == Polished
TempleFills == Polished
TempleResets == Polished
ForestFills == Polished \union {"autumnLeavesOverlay"}
ForestResets == Polished \union {"autumnLeavesOverlay"}
MountainFills == Polished
MountainResets == Polished
WayhouseFills == Polished
WayhouseResets == Polished
RooftopFills == Polished \union {"smogWispsOverlay"}
RooftopResets == Polished \union {"smogWispsOverlay"}
ServerRoomFills == Polished
ServerRoomResets == Polished
LobbyFills == Polished
LobbyResets == Polished
AlleyFills == Polished \union {"smogWispsOverlay"}
AlleyResets == Polished \union {"smogWispsOverlay"}

\* The title keeps its dismissed flag; the intro's create empties its lists.
TitleFills == {"blinkTween"}
TitleSets == {"titleDismissed"}
IntroFills == {"timeouts", "activeTweens", "gameObjects"}
IntroSets == {"dismissed", "waitingForKeypress", "dotGrid"}
IntroResets == {"timeouts", "activeTweens", "gameObjects"}
IntroInits == {"timeouts", "activeTweens", "gameObjects", "dismissed"}

Life(fills, sets, inits, resets) ==
  [fills |-> fills, sets |-> sets, inits |-> inits, resets |-> resets]
Interior(fills, resets) == Life(fills, {"exited"}, {"exited"}, resets)

Lives ==
  [ApolloVillage |-> Life(VillageFills, VillageSets, VillageInits, VillageResets),
   CaravanRoad |-> Life(RoadFills, RoadSets, RoadInits, RoadResets),
   CyberpunkShanghai |-> Life(ShanghaiFills, ShanghaiSets, {"spawnOverride"}, ShanghaiResets),
   ApolloMarketplaceBazaar |-> Interior(BazaarFills, BazaarResets),
   ApolloOasis |-> Interior(OasisFills, OasisResets),
   ApolloTempleInterior |-> Interior(TempleFills, TempleResets),
   CaravanForestCrossroad |-> Interior(ForestFills, ForestResets),
   CaravanMountainPass |-> Interior(MountainFills, MountainResets),
   CaravanWayhouseInterior |-> Interior(WayhouseFills, WayhouseResets),
   CyberRooftop |-> Interior(RooftopFills, RooftopResets),
   CyberServerRoom |-> Interior(ServerRoomFills, ServerRoomResets),
   CyberSkyscraperLobby |-> Interior(LobbyFills, LobbyResets),
   CyberUndergroundAlley |-> Interior(AlleyFills, AlleyResets),
   Title |-> Life(TitleFills, TitleSets, {}, {"blinkTween"}),
   IntroNarrative |-> Life(IntroFills, IntroSets, IntroInits, IntroResets)]

ASSUME VisitsAssumption == VisitedScenes \subseteq DOMAIN Lives /\ MAX_VISITS \in Nat

(***************************************************************************)
(* A visit: init, create, whatever the player does, SHUTDOWN.              *)
(***************************************************************************)
RunInit(s) ==
  /\ reuse.phase = "down" /\ reuse.visits < MAX_VISITS
  /\ reuse' = [reuse EXCEPT !.scene = s, !.phase = "init", !.visits = @ + 1,
                            !.dirty[s] = @ \ Lives[s].inits]

RunCreate ==
  /\ reuse.phase = "init"
  /\ reuse' = [reuse EXCEPT !.phase = "running",
                            !.dirty[reuse.scene] = @ \union Lives[reuse.scene].fills]

PlayInScene ==
  /\ reuse.phase = "running"
  /\ \E f \in Lives[reuse.scene].sets :
       reuse' = [reuse EXCEPT !.dirty[reuse.scene] = @ \union {f}]

Shutdown ==
  /\ reuse.phase = "running"
  /\ reuse' = [reuse EXCEPT !.phase = "down", !.dirty[reuse.scene] = @ \ Lives[reuse.scene].resets]

ReuseInit ==
  reuse = [scene |-> "", phase |-> "down", visits |-> 0,
           dirty |-> [s \in VisitedScenes |-> {}]]

ReuseNext == (\E s \in VisitedScenes : RunInit(s)) \/ RunCreate \/ PlayInScene \/ Shutdown

ReuseSpec == ReuseInit /\ [][ReuseNext]_reuseVars

\* The flags and handles no code resets: once set they stay for every later visit.
NeverReset == {"caravanZoneEntered", "arrivalEmitted", "waitingForKeypress", "dotGrid",
               "titleDismissed"}

\* create finds nothing of an earlier visit in what it appends to or what a visit
\* sets: no gate of a destroyed scene, no prompt, no half finished transition.
VisitStartsFresh ==
  reuse.phase = "init" => reuse.dirty[reuse.scene] \subseteq NeverReset
=============================================================================
