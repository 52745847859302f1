-------------------------------- MODULE Tower --------------------------------
(***************************************************************************)
(* ConstructionAnimation: the tower that grows a floor for each pipeline   *)
(* step.  Mounting loads a module and a renderer; every change of the      *)
(* floors or the world rebuilds the scene: it empties it, waits for the    *)
(* atlas and its image, and draws what the floors are then.  Rebuilds may  *)
(* overlap.  A floor is who built it; sprites and coordinates are left out.*)
(***************************************************************************)
EXTENDS Naturals, Sequences, FiniteSets, SequencesExt

CONSTANTS
  Builders,    \* the specialists that announce steps
  TowerWorlds, \* the worlds it can be drawn in
  MAX_FLOORS,  \* maxFloors
  STEPS,       \* bounds the floors announced or added
  CHANGES      \* bounds the changes of world

ASSUME TowerAssumption == MAX_FLOORS \in Nat \ {0} /\ STEPS \in Nat /\ CHANGES \in Nat

VARIABLES
  tower,    \* [mount, pixi, root, heard, floors, world]: how far mount() has come, whether the
            \* module and the scene root are set, whether the bus is subscribed
  scene,    \* the layers in sceneRoot: [world, floors]
  rebuilds, \* the rebuilds under way: [world, latest, ofMount]
  built,    \* whether the rebuild begun last has drawn its layer
  changes   \* the number of changes of world

towerVars == <<tower, scene, rebuilds, built, changes>>

TowerInit ==
  /\ tower \in [mount : {"not"}, pixi : {FALSE}, root : {FALSE}, heard : {FALSE},
                floors : {<<>>}, world : TowerWorlds]
  /\ scene = <<>> /\ rebuilds = <<>> /\ built = FALSE /\ changes = 0

Drawable(now) == now.pixi /\ now.root

Superseded(r) == [r EXCEPT !.latest = FALSE]

BegunUnlessBusy(now, ofMount) ==
  IF Drawable(now) /\ rebuilds = <<>>
  THEN /\ scene' = <<>> /\ built' = FALSE
       /\ rebuilds' = <<[world |-> now.world, latest |-> TRUE, ofMount |-> ofMount]>>
  ELSE UNCHANGED <<scene, rebuilds, built>>

\* rebuildScene up to its first await, for the state `now`: it empties the scene.
Begun(now, ofMount) ==
  IF Drawable(now)
  THEN /\ scene' = <<>> /\ built' = FALSE
       /\ rebuilds' = Append([k \in DOMAIN rebuilds |-> Superseded(rebuilds[k])],
                             [world |-> now.world, latest |-> TRUE, ofMount |-> ofMount])
  ELSE UNCHANGED <<scene, rebuilds, built>>

\* mount() of an instance, up to the import of the renderer.
MountStarts ==
  /\ tower.mount = "not" /\ tower' = [tower EXCEPT !.mount = "importing"]
  /\ UNCHANGED <<scene, rebuilds, built, changes>>

\* The module is there, also for an instance that was unmounted meanwhile.
ModuleImported ==
  /\ tower.mount = "importing"
  /\ tower' = [tower EXCEPT !.mount = "initialising", !.pixi = TRUE]
  /\ UNCHANGED <<scene, rebuilds, built, changes>>

\* app.init settles: the scene root is made and the first rebuild begins; without the module
\* that rebuild returns at once and the bus is subscribed.
RendererReady ==
  /\ tower.mount = "initialising"
  /\ LET now == [tower EXCEPT !.root = TRUE, !.mount = IF tower.pixi THEN "building" ELSE "done",
                              !.heard = ~tower.pixi]
     IN tower' = now /\ Begun(now, TRUE)
  /\ UNCHANGED changes

TopFloors(floors) == SubSeq(floors, 1, IF Len(floors) < MAX_FLOORS THEN Len(floors) ELSE MAX_FLOORS)

\* What a rebuild draws: the atlas of the world it began with, the floors of now.
Drawn(r) == [world |-> r.world, floors |-> TopFloors(tower.floors)]

\* mount() goes on after its rebuild: with a drawn scene it subscribes, else it rejects.
MountEnds(r, drawn) ==
  IF r.ofMount THEN [tower EXCEPT !.mount = "done", !.heard = drawn] ELSE tower

\* A rebuild's image is there and so is the scene root.
RebuildDraws(k) ==
  /\ tower.root
  /\ scene' = Append(scene, Drawn(rebuilds[k]))
  /\ built' = (built \/ rebuilds[k].latest)
  /\ rebuilds' = RemoveAt(rebuilds, k)
  /\ tower' = MountEnds(rebuilds[k], TRUE)
  /\ UNCHANGED changes

\* The atlas or its image fails, or the scene root is gone: the rebuild rejects.
RebuildFails(k) ==
  /\ rebuilds' = RemoveAt(rebuilds, k)
  /\ tower' = MountEnds(rebuilds[k], FALSE)
  /\ UNCHANGED <<scene, built, changes>>

Raised(who) ==
  LET now == [tower EXCEPT !.floors = Append(@, who)]
  IN Len(tower.floors) < STEPS /\ tower' = now /\ Begun(now, FALSE) /\ UNCHANGED changes

\* addFloor(): at any time.
AddFloor(who) == Raised(who)

\* pipeline.step.started and pipeline.step.completed of the run each push a floor.
StepHeard(who) == tower.heard /\ Raised(who)

\* setWorld(): the registry's write settles at once, then the scene is rebuilt.
SetWorld(next) ==
  /\ tower.world # next /\ changes < CHANGES
  /\ changes' = changes + 1
  /\ LET now == [tower EXCEPT !.world = next] IN tower' = now /\ Begun(now, FALSE)

\* unmount(): the rebuilds under way will find no scene root.
Unmount ==
  /\ tower.mount # "not"
  /\ tower' = [tower EXCEPT !.pixi = FALSE, !.root = FALSE, !.heard = FALSE]
  /\ scene' = <<>> /\ built' = FALSE
  /\ UNCHANGED <<rebuilds, changes>>

TowerNext ==
  \/ MountStarts \/ ModuleImported \/ RendererReady \/ Unmount
  \/ \E k \in DOMAIN rebuilds : RebuildDraws(k) \/ RebuildFails(k)
  \/ \E who \in Builders : AddFloor(who) \/ StepHeard(who)
  \/ \E next \in TowerWorlds : SetWorld(next)

TowerSpec == TowerInit /\ [][TowerNext]_towerVars
-----------------------------------------------------------------------------
\* However rebuilds overlap and in whatever order their images arrive, once the one begun last
\* has drawn, a layer of the scene shows all the floors in the present world.
EveryFloorIsDrawn ==
  built => [world |-> tower.world, floors |-> TopFloors(tower.floors)] \in ToSet(scene)
=============================================================================
