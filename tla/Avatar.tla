------------------------------- MODULE Avatar -------------------------------
(***************************************************************************)
(* The player's sprite: what PreloadScene has loaded and registered for    *)
(* it, how Player turns the keys held into a velocity and an animation,    *)
(* and the positions it reports to the game's listeners at intervals.      *)
(*                                                                         *)
(* A frame moves the sprite by at most a unit along each axis (obstacles   *)
(* and the world's edge may hold it); speeds and pixels are left out.      *)
(***************************************************************************)
EXTENDS Integers, FiniteSets

CONSTANTS
  Sheets,     \* the character sheets PreloadScene asks for
  OwnSheet,   \* the one the player is drawn with
  EDGE,       \* the world reaches from -EDGE to EDGE
  COOLDOWN    \* frames in moveEmitCooldownMs

ASSUME AvatarAssumption == OwnSheet \in Sheets /\ EDGE \in Nat /\ COOLDOWN \in Nat \ {0}

VARIABLES
  preload,   \* [stage, loaded, anims]: textures there and animations registered
  avatar,    \* [at, facing, playing, since]
  reports    \* [last, sum]: lastEmitX/Y, and history: the deltas reported, summed

avatarVars == <<preload, avatar, reports>>

Directions == {"down", "up", "left", "right"}
Axis == -1..1
Still == <<"none", "down">>

AvatarInit ==
  /\ preload = [stage |-> "loading", loaded |-> {}, anims |-> {}]
  /\ avatar = [at |-> <<0, 0>>, facing |-> "down", playing |-> Still, since |-> COOLDOWN]
  /\ reports = [last |-> <<0, 0>>, sum |-> <<0, 0>>]

----------------------------------------------------------------------------
(* PreloadScene.                                                           *)

\* preloadAiAssets asks for every sheet; one may fail, which is only logged.
SheetLoads(s) ==
  /\ preload.stage = "loading" /\ s \notin preload.loaded
  /\ preload' = [preload EXCEPT !.loaded = @ \cup {s}]
  /\ UNCHANGED <<avatar, reports>>

\* registerCharacterAnimations passes over the sheets that did not load.
RegisteredAnims == preload.loaded \X {"walk", "idle"} \X Directions

\* anims.play of a key that is not registered leaves the sprite as it was.
PlayedOn(before, kind, dir) ==
  IF <<OwnSheet, kind, dir>> \in preload.anims THEN <<kind, dir>> ELSE before

\* The loader completes, whatever has failed, and create starts the first scene,
\* where the player is made and stands facing down.
PreloadCreate ==
  /\ preload.stage = "loading"
  /\ preload' = [preload EXCEPT !.stage = "playing", !.anims = RegisteredAnims]
  /\ avatar' = [avatar EXCEPT !.playing = IF <<OwnSheet, "idle", "down">> \in RegisteredAnims
                                            THEN <<"idle", "down">> ELSE @]
  /\ UNCHANGED reports

----------------------------------------------------------------------------
(* Player.update.                                                          *)

\* The axis with the larger velocity; a diagonal is shown as vertical.
Facing(vx, vy) ==
  IF vy # 0 THEN IF vy > 0 THEN "down" ELSE "up"
  ELSE IF vx > 0 THEN "right" ELSE "left"

\* The sprite stands in the direction it was last given.
DriveAnimation(a, vx, vy) ==
  IF vx = 0 /\ vy = 0 THEN [a EXCEPT !.playing = PlayedOn(@, "idle", a.facing)]
  ELSE LET dir == Facing(vx, vy)
       IN [a EXCEPT !.facing = dir, !.playing = PlayedOn(@, "walk", dir)]

\* Reported while a key is held, not oftener than the cooldown, and if it moved.
MayReport(vx, vy) ==
  /\ (vx # 0 \/ vy # 0) /\ avatar.since >= COOLDOWN
  /\ avatar.at # reports.last

Reported ==
  [last |-> avatar.at, sum |-> <<reports.sum[1] + avatar.at[1] - reports.last[1],
                                 reports.sum[2] + avatar.at[2] - reports.last[2]>>]

\* The physics step after the update, within the world's bounds; an obstacle may
\* hold the sprite on either axis.
StepsTo(from, v) == {from} \cup ({from + v} \cap -EDGE..EDGE)

PlayerFrame(vx, vy) ==
  /\ preload.stage = "playing"
  /\ \E x \in StepsTo(avatar.at[1], vx), y \in StepsTo(avatar.at[2], vy) :
       avatar' = [DriveAnimation(avatar, vx, vy) EXCEPT
                    !.at = <<x, y>>,
                    !.since = IF MayReport(vx, vy) THEN 1
                              ELSE IF @ < COOLDOWN THEN @ + 1 ELSE @]
  /\ reports' = IF MayReport(vx, vy) THEN Reported ELSE reports
  /\ UNCHANGED preload

AvatarNext ==
  \/ \E s \in Sheets : SheetLoads(s)
  \/ PreloadCreate
  \/ \E vx, vy \in Axis : PlayerFrame(vx, vy)

AvatarSpec == AvatarInit /\ [][AvatarNext]_avatarVars

----------------------------------------------------------------------------

\* A listener that adds the deltas of game.player.moved to the spawn point is
\* where the last report says, across the frames the cooldown passed over.
ReportsAddUp == reports.sum = reports.last

\* The sprite looks the way it was last driven, walking or standing, and shows
\* nothing of a sheet that did not load (registerCharacterAnimations skips it).
LooksWhereItWent ==
  IF preload.stage = "playing" /\ OwnSheet \in preload.loaded
  THEN avatar.playing[2] = avatar.facing
  ELSE avatar.playing = Still
=============================================================================
