------------------------------ MODULE GameProofs ------------------------------
(***************************************************************************)
(* Proofs about the parts of the browser game that show, sound, spend,     *)
(* read and pay: the world themes, the audio engine, the player's sprite,  *)
(* the cinematic, the shop and its toast, the workshop, the chat's         *)
(* streams, the ways out of a scene and the quest.  Each has an inductive  *)
(* invariant; the promises that several of them carry together             *)
(* (MCGame) follow from these.                                       *)
(***************************************************************************)
EXTENDS MCGame, Sums, FiniteSetTheorems, SequenceTheorems, TLAPS

-----------------------------------------------------------------------------
(* World themes.                                                           *)

WorldsTypes ==
  /\ page \in {"builder", "advisor", "other"} /\ storage \in BOOLEAN
  /\ theme \in [active : AllWorlds, root : AllWorlds]
  /\ stored \in [theme : AllWorlds \union {NoWorld}, session : AllWorlds \union {NoWorld}]
  /\ remembered \in AllWorlds \union {NoWorld}
  /\ shown \in [switcher : AllWorlds, picker : AllWorlds]

\* The document never shows another world than the runtime's, and a browser that stores
\* anything has stored that world.
WorldsInv ==
  /\ WorldsTypes
  /\ theme.root = theme.active
  /\ storage => stored.theme = theme.active
  /\ SwitcherMarksTheTheme

\* The arrow keys stay inside the listed worlds, whatever the number of them
\* (WorldAestheticSwitcher's handleKey).
LEMMA ArrowStaysListed ==
  ASSUME NEW at \in 1..Len(WorldIds), NEW step \in {1, Len(WorldIds) - 1}
  PROVE  WorldIds[((at - 1 + step) % Len(WorldIds)) + 1] \in AllWorlds
<1>1. Len(WorldIds) \in Nat
  BY WorldsAssumption
<1>2. Len(WorldIds) > 0
  BY <1>1
<1>3. (at - 1 + step) \in Nat
  BY <1>1, <1>2
<1>4. (at - 1 + step) % Len(WorldIds) \in 0..(Len(WorldIds) - 1)
  BY <1>1, <1>2, <1>3
<1>5. ((at - 1 + step) % Len(WorldIds)) + 1 \in 1..Len(WorldIds)
  BY <1>1, <1>2, <1>4
<1> QED
  BY <1>5, WorldsAssumption DEF AllWorlds

LEMMA WorldsInvInit == WorldsInit => WorldsInv
BY WorldsAssumption DEF WorldsInit, WorldsInv, WorldsTypes, SwitcherMarksTheTheme

LEMMA SessionWorldListed ==
  ASSUME WorldsTypes
  PROVE  /\ SessionWorld(stored, remembered) \in AllWorlds
         /\ SessionWorld(stored, NoWorld) \in AllWorlds
         /\ Persisted(stored) \in AllWorlds
BY WorldsAssumption DEF WorldsTypes, SessionWorld, Persisted

LEMMA HandleSelectKeepsInv ==
  ASSUME WorldsInv, NEW other \in AllWorlds, HandleSelect(other)
  PROVE  WorldsInv'
BY WorldsAssumption
   DEF WorldsInv, WorldsTypes, HandleSelect, SwitcherMarksTheTheme, SessionWorld

LEMMA WorldsInvStep == WorldsInv /\ [WorldsNext]_worldsVars => WorldsInv'
<1> SUFFICES ASSUME WorldsInv, [WorldsNext]_worldsVars PROVE WorldsInv'
  OBVIOUS
<1> USE WorldsAssumption DEF WorldsInv, WorldsTypes
<1>1. CASE VisitBuilder
  BY <1>1, SessionWorldListed
     DEF VisitBuilder, SwitcherMounts, Applied, SwitcherMarksTheTheme, SessionWorld
<1>2. CASE VisitAdvisor
  BY <1>2 DEF VisitAdvisor, SwitcherMarksTheTheme
<1>3. CASE VisitOther
  BY <1>3 DEF VisitOther, SwitcherMarksTheTheme
<1>4. CASE ReloadDocument
  BY <1>4, SessionWorldListed DEF ReloadDocument, SwitcherMarksTheTheme, SessionWorld
<1>5. ASSUME NEW other \in AllWorlds, HandleSelect(other) PROVE WorldsInv'
  BY <1>5, HandleSelectKeepsInv
<1>6. ASSUME NEW other \in AllWorlds, PickWorld(other) PROVE WorldsInv'
  BY <1>6 DEF PickWorld, Applied, SwitcherMarksTheTheme
<1>7. ASSUME NEW step \in {1, Len(WorldIds) - 1}, page = "builder", ArrowKey(step)
      PROVE WorldsInv'
  <2> DEFINE at == CHOOSE i \in DOMAIN WorldIds : WorldIds[i] = shown.switcher
  <2>1. at \in 1..Len(WorldIds)
    BY WorldsAssumption DEF AllWorlds
  <2>2. WorldIds[((at - 1 + step) % Len(WorldIds)) + 1] \in AllWorlds
    BY <2>1, ArrowStaysListed
  <2> QED
    BY <1>7, <2>2, HandleSelectKeepsInv DEF ArrowKey
<1>8. CASE UNCHANGED worldsVars
  BY <1>8 DEF worldsVars, SwitcherMarksTheTheme, SessionWorld
<1> QED
  BY <1>1, <1>2, <1>3, <1>4, <1>5, <1>6, <1>7, <1>8 DEF WorldsNext

\* The builder's switcher, the document and the session agree on the world, for every list
\* of worlds and every route to the page (WorldAestheticSwitcher, theme_runtime).
THEOREM SwitcherAgrees == WorldsSpec => []SwitcherMarksTheTheme
<1>1. WorldsInv => SwitcherMarksTheTheme
  BY DEF WorldsInv
<1> QED
  BY <1>1, WorldsInvInit, WorldsInvStep, PTL DEF WorldsSpec

\* A reload keeps the world where the browser stores anything: the boot component and the
\* switcher's effect, which both run, agree (ThemeBoot, hydrateActiveWorld).
THEOREM ReloadKeepsWorld == WorldsSpec => ReloadKeepsTheWorld
<1>1. WorldsInv /\ [WorldsNext]_worldsVars
        => [storage /\ ReloadDocument => theme' = theme]_worldsVars
  <2> SUFFICES ASSUME WorldsInv, storage, ReloadDocument
               PROVE  theme' = theme
    OBVIOUS
  <2>1. Persisted(stored) = theme.active
    BY WorldsAssumption DEF WorldsInv, WorldsTypes, Persisted
  <2>2. page = "builder" => SessionWorld(stored, NoWorld) = theme.active
    BY DEF WorldsInv, SwitcherMarksTheTheme, SessionWorld
  <2>3. theme' = [active |-> theme.active, root |-> theme.active]
    BY <2>1, <2>2 DEF ReloadDocument
  <2> QED
    BY <2>3 DEF WorldsInv, WorldsTypes
<1> QED
  BY <1>1, WorldsInvInit, WorldsInvStep, PTL DEF WorldsSpec, ReloadKeepsTheWorld

-----------------------------------------------------------------------------
(* The audio engine.                                                       *)

AudioFlags == music \in BOOLEAN /\ gate \in BOOLEAN

Engines == [unlocked : BOOLEAN, bus : BOOLEAN, current : AmbientCues \union {NoCue},
            id : 0 .. SOUNDS, volume : 0 .. 1]

AudioTypes ==
  /\ engine \in Engines
  /\ sounds \subseteq [cue : AmbientCues, id : 1 .. SOUNDS]
  /\ timers \subseteq [cue : AmbientCues, id : 1 .. SOUNDS]
  /\ mixer \in [master : 0 .. 1, ambient : 0 .. 1, muted : BOOLEAN,
                intent : AmbientCues \union {NoCue}]
  /\ started \in 0 .. SOUNDS

\* The current loop is the last one started, on an unlocked engine, and every stop to come
\* is for an earlier sound.
StopsAreForEarlierSounds ==
  /\ engine.current # NoCue => engine.unlocked /\ engine.id = started
  /\ \A t \in timers : t.id <= started /\ (engine.current # NoCue => t.id < engine.id)

AudioInv == AudioTypes /\ OneLoopRemains /\ LoopFollowsTheMixer /\ StopsAreForEarlierSounds

\* The engine with another loop, as playAmbient and stopAmbient leave it.
LoopSet(e, cue, id, volume) == [e EXCEPT !.current = cue, !.id = id, !.volume = volume]

LEMMA LoopOfEngine ==
  ASSUME NEW e \in Engines, NEW cue \in AmbientCues \union {NoCue}, NEW id \in 0 .. SOUNDS,
         NEW volume \in 0 .. 1
  PROVE  /\ LoopSet(e, cue, id, volume) \in Engines
         /\ LoopSet(e, cue, id, volume).unlocked = e.unlocked
         /\ LoopSet(e, cue, id, volume).current = cue
         /\ LoopSet(e, cue, id, volume).id = id
         /\ LoopSet(e, cue, id, volume).volume = volume
<1> DEFINE first == [e EXCEPT !.current = cue]
           second == [first EXCEPT !.id = id]
           third == [second EXCEPT !.volume = volume]
<1>1. first \in Engines /\ first.unlocked = e.unlocked /\ first.current = cue
  BY DEF Engines
<1> HIDE DEF first
<1>2. second \in Engines /\ second.unlocked = e.unlocked /\ second.current = cue
      /\ second.id = id
  BY <1>1 DEF Engines
<1> HIDE DEF second
<1>3. third \in Engines /\ third.unlocked = e.unlocked /\ third.current = cue
      /\ third.id = id /\ third.volume = volume
  BY <1>2 DEF Engines
<1>4. third = LoopSet(e, cue, id, volume)
  BY Zenon DEF second, first, LoopSet
<1> HIDE DEF third
<1> QED
  BY <1>3, <1>4

LEMMA SilentEngine ==
  ASSUME NEW e \in Engines
  PROVE  NoAmbient(e) \in Engines /\ NoAmbient(e).current = NoCue
<1>1. NoCue \in AmbientCues \union {NoCue} /\ 0 \in 0 .. SOUNDS /\ 0 \in 0 .. 1
  BY AudioAssumption
<1>2. NoAmbient(e) = LoopSet(e, NoCue, 0, 0)
  BY Zenon DEF NoAmbient, LoopSet
<1> QED
  BY <1>1, <1>2, LoopOfEngine

LEMMA DisposedEngine ==
  ASSUME NEW e \in Engines
  PROVE  /\ [e EXCEPT !.unlocked = FALSE, !.bus = FALSE] \in Engines
         /\ [e EXCEPT !.unlocked = FALSE, !.bus = FALSE].current = e.current
BY DEF Engines

LEMMA UnlockedEngine ==
  ASSUME NEW e \in Engines
  PROVE  Unlocked(e) \in Engines /\ Unlocked(e).unlocked /\ Unlocked(e).current = e.current
         /\ Unlocked(e).id = e.id /\ Unlocked(e).volume = e.volume
BY DEF Engines, Unlocked

LEMMA EffectiveIsOneOrNone ==
  ASSUME NEW m \in [master : 0 .. 1, ambient : 0 .. 1, muted : BOOLEAN,
                    intent : AmbientCues \union {NoCue}]
  PROVE  Effective(m) \in 0 .. 1
<1>1. m.master \in {0, 1} /\ m.ambient \in {0, 1}
  OBVIOUS
<1>2. CASE m.master = 0
  BY <1>1, <1>2 DEF Effective
<1>3. CASE m.master = 1
  BY <1>1, <1>3 DEF Effective
<1> QED
  BY <1>1, <1>2, <1>3

LEMMA AudioInvInit == AudioInit => AudioInv
<1> SUFFICES ASSUME AudioInit PROVE AudioInv
  OBVIOUS
<1>1. AudioTypes
  BY AudioAssumption DEF AudioInit, AudioTypes, Engines
<1>2. OneLoopRemains /\ LoopFollowsTheMixer /\ StopsAreForEarlierSounds
  BY DEF AudioInit, OneLoopRemains, LoopFollowsTheMixer, StopsAreForEarlierSounds
<1> QED
  BY <1>1, <1>2 DEF AudioInv

LEMMA SetMixerKeepsInv ==
  ASSUME AudioInv, SetMixer(mixer'),
         mixer' \in [master : 0 .. 1, ambient : 0 .. 1, muted : BOOLEAN,
                     intent : AmbientCues \union {NoCue}]
  PROVE  AudioInv'
<1>1. Effective(mixer') \in 0 .. 1 /\ Effective(mixer') = Effective(mixer)'
  BY EffectiveIsOneOrNone DEF Effective
<1> HIDE DEF Effective
<1> QED
  BY <1>1 DEF AudioInv, AudioTypes, Engines, OneLoopRemains, LoopFollowsTheMixer, StopLater,
              StopsAreForEarlierSounds, SetMixer, RefreshAmbientVolume

\* What is to be stopped after a change of the loop includes the loop itself, which plays.
LEMMA StopLaterTyped ==
  ASSUME AudioInv
  PROVE  StopLater \subseteq [cue : AmbientCues, id : 1 .. SOUNDS]
<1>1. engine.current # NoCue => [cue |-> engine.current, id |-> engine.id] \in sounds
  BY DEF AudioInv, OneLoopRemains
<1>2. sounds \subseteq [cue : AmbientCues, id : 1 .. SOUNDS]
  BY DEF AudioInv, AudioTypes
<1>3. timers \subseteq [cue : AmbientCues, id : 1 .. SOUNDS]
  BY DEF AudioInv, AudioTypes
<1> QED
  BY <1>1, <1>2, <1>3 DEF StopLater

LEMMA AudioInvStep == AudioInv /\ [AudioNext]_audioVars => AudioInv'
<1> SUFFICES ASSUME AudioInv, [AudioNext]_audioVars PROVE AudioInv'
  OBVIOUS
<1>1. CASE AttachBus
  BY <1>1 DEF AttachBus, Effective, AudioInv, AudioTypes, Engines, OneLoopRemains, LoopFollowsTheMixer,
     StopsAreForEarlierSounds, StopLater
<1>2. CASE UnlockGesture
  BY <1>2 DEF UnlockGesture, Unlocked, Effective, AudioInv, AudioTypes, Engines, OneLoopRemains, LoopFollowsTheMixer,
     StopsAreForEarlierSounds, StopLater
<1>3. CASE StopAmbient
  <2>1. engine' = NoAmbient(engine) /\ timers' = StopLater /\ UNCHANGED <<sounds, mixer, started>>
    BY <1>3 DEF StopAmbient
  <2>2. engine' \in Engines /\ engine'.current = NoCue
    BY <2>1, SilentEngine DEF AudioInv, AudioTypes
  <2>3. AudioTypes'
    BY <2>1, <2>2, StopLaterTyped DEF AudioInv, AudioTypes
  <2>4. OneLoopRemains' /\ LoopFollowsTheMixer'
    BY <2>1, <2>2 DEF AudioInv, OneLoopRemains, LoopFollowsTheMixer, StopLater
  <2>5. StopsAreForEarlierSounds'
    BY <2>1, <2>2 DEF AudioInv, AudioTypes, Engines, StopsAreForEarlierSounds, StopLater
  <2> QED
    BY <2>3, <2>4, <2>5 DEF AudioInv
<1>4. CASE StopMusic
  BY <1>4 DEF StopMusic, Effective, AudioInv, AudioTypes, Engines, OneLoopRemains, LoopFollowsTheMixer,
     StopsAreForEarlierSounds, StopLater
<1>5. CASE Dispose
  <2>1. /\ engine' = [NoAmbient(engine) EXCEPT !.unlocked = FALSE, !.bus = FALSE]
        /\ sounds' = {} /\ UNCHANGED <<timers, mixer, started>>
    BY <1>5 DEF Dispose
  <2>2. engine' \in Engines /\ engine'.current = NoCue
    BY <2>1, SilentEngine, DisposedEngine DEF AudioInv, AudioTypes
  <2> QED
    BY <2>1, <2>2 DEF AudioInv, AudioTypes, Engines, OneLoopRemains, LoopFollowsTheMixer,
                      StopsAreForEarlierSounds
<1>6. ASSUME NEW c \in AmbientCues, PlayAmbient(c) PROVE AudioInv'
  <2>1. Effective(mixer) \in 0 .. 1
    BY EffectiveIsOneOrNone DEF AudioInv, AudioTypes
  <2>2. Effective(mixer') = Effective(mixer)
    BY <1>6 DEF PlayAmbient
  <2>3. CASE engine.current = c
    <3>1. engine' = Unlocked(engine) /\ UNCHANGED <<sounds, timers, mixer, started>>
      BY <1>6, <2>3 DEF PlayAmbient
    <3> QED
      BY <3>1, UnlockedEngine DEF AudioInv, AudioTypes, Engines, OneLoopRemains, LoopFollowsTheMixer,
                                  StopsAreForEarlierSounds, StopLater
  <2>4. CASE engine.current # c
    <3>1. /\ started < SOUNDS /\ started' = started + 1
          /\ sounds' = sounds \union {[cue |-> c, id |-> started + 1]}
          /\ timers' = StopLater /\ mixer' = mixer
      BY <1>6, <2>4 DEF PlayAmbient
    <3>0. engine' = LoopSet(Unlocked(engine), c, started + 1, Effective(mixer))
      BY <1>6, <2>4, Zenon DEF PlayAmbient, LoopSet
    <3>2. started + 1 \in 1 .. SOUNDS /\ started + 1 \in 0 .. SOUNDS /\ c # NoCue
      BY <3>1, AudioAssumption DEF AudioInv, AudioTypes
    <3>3. /\ engine' \in Engines /\ engine'.unlocked /\ engine'.current = c
          /\ engine'.id = started + 1 /\ engine'.volume = Effective(mixer)
      <4>1. Unlocked(engine) \in Engines /\ Unlocked(engine).unlocked
        BY UnlockedEngine DEF AudioInv, AudioTypes
      <4>2. c \in AmbientCues \union {NoCue}
        OBVIOUS
      <4> QED
        BY <2>1, <3>0, <3>2, <4>1, <4>2, LoopOfEngine
    <3>4. AudioTypes'
      BY <3>1, <3>2, <3>3, StopLaterTyped DEF AudioInv, AudioTypes
    <3>5. OneLoopRemains'
      BY <3>1, <3>2, <3>3 DEF AudioInv, OneLoopRemains, StopLater
    <3>6. LoopFollowsTheMixer'
      BY <2>2, <3>3 DEF LoopFollowsTheMixer
    <3>7. StopsAreForEarlierSounds'
      BY <3>1, <3>3 DEF AudioInv, AudioTypes, Engines, StopsAreForEarlierSounds, StopLater
    <3> QED
      BY <3>4, <3>5, <3>6, <3>7 DEF AudioInv
  <2> QED
    BY <2>3, <2>4
<1>7. ASSUME NEW t \in timers, StopTimer(t) PROVE AudioInv'
  BY <1>7 DEF StopTimer, StoppedSound, Effective, AudioInv, AudioTypes, Engines, OneLoopRemains, LoopFollowsTheMixer,
     StopsAreForEarlierSounds, StopLater
<1>8. ASSUME NEW b \in BOOLEAN, PlayCue(b) PROVE AudioInv'
  BY <1>8 DEF PlayCue, Unlocked, Effective, AudioInv, AudioTypes, Engines, OneLoopRemains, LoopFollowsTheMixer,
     StopsAreForEarlierSounds, StopLater
<1>9. CASE SetVolume \/ ToggleMute \/ StoreAmbient
  <2>1. SetMixer(mixer')
    BY <1>9 DEF SetVolume, ToggleMute, StoreAmbient, SetMixer
  <2>2. mixer' \in [master : 0 .. 1, ambient : 0 .. 1, muted : BOOLEAN,
                    intent : AmbientCues \union {NoCue}]
    BY <1>9, AudioAssumption
       DEF SetVolume, ToggleMute, StoreAmbient, SetMixer, AudioInv, AudioTypes, Engines
  <2> QED
    BY <2>1, <2>2, SetMixerKeepsInv
<1>10. CASE UNCHANGED audioVars
  BY <1>10 DEF audioVars, Effective, AudioInv, AudioTypes, Engines, OneLoopRemains, LoopFollowsTheMixer,
     StopsAreForEarlierSounds, StopLater
<1> QED
  BY <1>1, <1>2, <1>3, <1>4, <1>5, <1>6, <1>7, <1>8, <1>9, <1>10 DEF AudioNext

LEMMA AudioFlagsStep == AudioFlags /\ [AudioNext]_audioVars => AudioFlags'
BY DEF AudioFlags, AudioNext, audioVars, AttachBus, UnlockGesture, StopAmbient, StopMusic,
       Dispose, PlayAmbient, StopTimer, PlayCue, SetVolume, ToggleMute, StoreAmbient, SetMixer

\* The audio engine's state keeps its types, and with them the inductive invariant above.
THEOREM AudioAlways == AudioSpec => [](AudioTypeOK /\ AudioInv)
<1>1. AudioInit => AudioFlags
  BY DEF AudioInit, AudioFlags
<1>2. AudioFlags /\ AudioInv => AudioTypeOK
  BY DEF AudioFlags, AudioInv, AudioTypes, Engines, AudioTypeOK
<1> QED
  BY <1>1, <1>2, AudioInvInit, AudioInvStep, AudioFlagsStep, PTL DEF AudioSpec

-----------------------------------------------------------------------------
(* The player's sprite.                                                    *)

AvatarTypes ==
  /\ preload \in [stage : {"loading", "playing"}, loaded : SUBSET Sheets,
                  anims : SUBSET (Sheets \X {"walk", "idle"} \X Directions)]
  /\ avatar \in [at : Int \X Int, facing : Directions,
                 playing : {"none", "walk", "idle"} \X Directions, since : Nat]
  /\ reports \in [last : Int \X Int, sum : Int \X Int]

\* Animations are registered once, from the sheets that have loaded by then; until then
\* the sprite is not made.
AvatarInv ==
  /\ AvatarTypes
  /\ preload.stage = "loading" =>
       preload.anims = {} /\ avatar.playing = Still /\ avatar.facing = "down"
  /\ preload.stage = "playing" => preload.anims = RegisteredAnims
  /\ ReportsAddUp /\ LooksWhereItWent

LEMMA AvatarInvInit == AvatarInit => AvatarInv
<1> SUFFICES ASSUME AvatarInit PROVE AvatarInv
  OBVIOUS
<1>1. AvatarTypes
  BY AvatarAssumption DEF AvatarInit, AvatarTypes, Still, Directions
<1> QED
  BY <1>1 DEF AvatarInit, AvatarInv, ReportsAddUp, LooksWhereItWent

LEMMA DrivenSprite ==
  ASSUME AvatarInv, preload.stage = "playing", NEW vx \in Axis, NEW vy \in Axis
  PROVE  LET driven == DriveAnimation(avatar, vx, vy)
         IN /\ driven \in [at : Int \X Int, facing : Directions,
                           playing : {"none", "walk", "idle"} \X Directions, since : Nat]
            /\ IF OwnSheet \in preload.loaded THEN driven.playing[2] = driven.facing
               ELSE driven.playing = Still
<1> DEFINE driven == DriveAnimation(avatar, vx, vy)
<1>1. Facing(vx, vy) \in Directions
  BY DEF Facing, Directions
<1>2. ASSUME NEW kind \in {"walk", "idle"}, NEW dir \in Directions
      PROVE  PlayedOn(avatar.playing, kind, dir)
               = IF OwnSheet \in preload.loaded THEN <<kind, dir>> ELSE avatar.playing
  BY DEF AvatarInv, AvatarTypes, RegisteredAnims, PlayedOn
<1>3. avatar.facing \in Directions /\ avatar.playing \in {"none", "walk", "idle"} \X Directions
  BY DEF AvatarInv, AvatarTypes
<1>4. OwnSheet \notin preload.loaded => avatar.playing = Still
  BY DEF AvatarInv, LooksWhereItWent
<1>5. CASE vx = 0 /\ vy = 0
  <2>1. driven = [avatar EXCEPT !.playing = PlayedOn(avatar.playing, "idle", avatar.facing)]
    BY <1>5 DEF DriveAnimation
  <2> QED
    BY <1>2, <1>3, <1>4, <2>1 DEF AvatarInv, AvatarTypes
<1>6. CASE ~(vx = 0 /\ vy = 0)
  <2>1. driven = [avatar EXCEPT !.facing = Facing(vx, vy),
                                !.playing = PlayedOn(avatar.playing, "walk", Facing(vx, vy))]
    BY <1>6 DEF DriveAnimation
  <2> DEFINE turned == [avatar EXCEPT !.facing = Facing(vx, vy)]
  <2>2. driven = [turned EXCEPT !.playing = PlayedOn(avatar.playing, "walk", Facing(vx, vy))]
    BY <2>1, Zenon
  <2>3. turned.facing = Facing(vx, vy)
        /\ turned \in [at : Int \X Int, facing : Directions,
                       playing : {"none", "walk", "idle"} \X Directions, since : Nat]
    BY <1>1 DEF AvatarInv, AvatarTypes
  <2> HIDE DEF turned
  <2> DEFINE played == PlayedOn(avatar.playing, "walk", Facing(vx, vy))
  <2>4. played = IF OwnSheet \in preload.loaded THEN <<"walk", Facing(vx, vy)>>
                 ELSE avatar.playing
    BY <1>1, <1>2
  <2> HIDE DEF played
  <2>5. played \in {"none", "walk", "idle"} \X Directions
    BY <1>1, <1>3, <2>4
  <2>6. driven \in [at : Int \X Int, facing : Directions,
                    playing : {"none", "walk", "idle"} \X Directions, since : Nat]
        /\ driven.facing = Facing(vx, vy) /\ driven.playing = played
    BY <2>2, <2>3, <2>5 DEF played
  <2>7. IF OwnSheet \in preload.loaded THEN driven.playing[2] = driven.facing
        ELSE driven.playing = Still
    <3> HIDE DEF driven
    <3> QED
      BY <1>4, <2>4, <2>6
  <2> QED
    BY <2>6, <2>7
<1> QED
  BY <1>5, <1>6

LEMMA AvatarInvStep == AvatarInv /\ [AvatarNext]_avatarVars => AvatarInv'
<1> SUFFICES ASSUME AvatarInv, [AvatarNext]_avatarVars PROVE AvatarInv'
  OBVIOUS
<1>1. ASSUME NEW s \in Sheets, SheetLoads(s) PROVE AvatarInv'
  BY <1>1 DEF SheetLoads, AvatarInv, AvatarTypes, ReportsAddUp, LooksWhereItWent
<1>2. CASE PreloadCreate
  <2>1. preload' = [preload EXCEPT !.stage = "playing", !.anims = RegisteredAnims]
    BY <1>2 DEF PreloadCreate
  <2>2. /\ preload'.stage = "playing" /\ preload'.loaded = preload.loaded
        /\ preload'.anims = RegisteredAnims /\ RegisteredAnims' = RegisteredAnims
        /\ preload' \in [stage : {"loading", "playing"}, loaded : SUBSET Sheets,
                         anims : SUBSET (Sheets \X {"walk", "idle"} \X Directions)]
    BY <2>1 DEF AvatarInv, AvatarTypes, RegisteredAnims
  <2>3. <<OwnSheet, "idle", "down">> \in RegisteredAnims <=> OwnSheet \in preload.loaded
    BY DEF RegisteredAnims, Directions
  <2>4. avatar' = [avatar EXCEPT !.playing = IF OwnSheet \in preload.loaded
                                             THEN <<"idle", "down">> ELSE avatar.playing]
    BY <1>2, <2>3 DEF PreloadCreate
  <2>5. avatar.playing = Still /\ avatar.facing = "down"
    BY <1>2 DEF PreloadCreate, AvatarInv
  <2>6. AvatarTypes'
    BY <1>2, <2>2, <2>4 DEF PreloadCreate, AvatarInv, AvatarTypes, Directions
  <2> QED
    BY <1>2, <2>2, <2>4, <2>5, <2>6
       DEF PreloadCreate, AvatarInv, AvatarTypes, ReportsAddUp, LooksWhereItWent
<1>3. ASSUME NEW vx \in Axis, NEW vy \in Axis, PlayerFrame(vx, vy) PROVE AvatarInv'
  <2> DEFINE driven == DriveAnimation(avatar, vx, vy)
  <2>1. /\ driven \in [at : Int \X Int, facing : Directions,
                       playing : {"none", "walk", "idle"} \X Directions, since : Nat]
        /\ IF OwnSheet \in preload.loaded THEN driven.playing[2] = driven.facing
           ELSE driven.playing = Still
    BY <1>3, DrivenSprite DEF PlayerFrame
  <2>2. PICK x \in StepsTo(avatar.at[1], vx), y \in StepsTo(avatar.at[2], vy) :
          avatar' = [driven EXCEPT !.at = <<x, y>>,
                                   !.since = IF MayReport(vx, vy) THEN 1
                                             ELSE IF @ < COOLDOWN THEN @ + 1 ELSE @]
    BY <1>3 DEF PlayerFrame
  <2> HIDE DEF driven
  <2>3. x \in Int /\ y \in Int
    BY DEF StepsTo, AvatarInv, AvatarTypes, Axis
  <2>4. /\ avatar' \in [at : Int \X Int, facing : Directions,
                        playing : {"none", "walk", "idle"} \X Directions, since : Nat]
        /\ avatar'.playing = driven.playing /\ avatar'.facing = driven.facing
    <3> DEFINE moved == [driven EXCEPT !.at = <<x, y>>]
               since == IF MayReport(vx, vy) THEN 1
                        ELSE IF driven.since < COOLDOWN THEN driven.since + 1 ELSE driven.since
    <3>1. avatar' = [moved EXCEPT !.since = since]
      BY <2>2, Zenon
    <3>2. moved.playing = driven.playing /\ moved.facing = driven.facing
          /\ moved \in [at : Int \X Int, facing : Directions,
                        playing : {"none", "walk", "idle"} \X Directions, since : Nat]
      BY <2>1, <2>3
    <3>3. since \in Nat
      BY <2>1
    <3> HIDE DEF moved, since
    <3> QED
      BY <3>1, <3>2, <3>3
  <2>5. Reported \in [last : Int \X Int, sum : Int \X Int]
        /\ Reported.sum = Reported.last
    BY DEF Reported, AvatarInv, AvatarTypes, ReportsAddUp
  <2>6. reports' \in [last : Int \X Int, sum : Int \X Int] /\ reports'.sum = reports'.last
    BY <1>3, <2>5 DEF PlayerFrame, AvatarInv, AvatarTypes, ReportsAddUp
  <2>7. preload' = preload /\ preload.stage = "playing" /\ RegisteredAnims' = RegisteredAnims
    BY <1>3 DEF PlayerFrame, RegisteredAnims
  <2> QED
    BY <2>1, <2>4, <2>6, <2>7
       DEF AvatarInv, AvatarTypes, ReportsAddUp, LooksWhereItWent
<1>4. CASE UNCHANGED avatarVars
  BY <1>4 DEF avatarVars, AvatarInv, AvatarTypes, ReportsAddUp, LooksWhereItWent,
              RegisteredAnims
<1> QED
  BY <1>1, <1>2, <1>3, <1>4 DEF AvatarNext

LEMMA AvatarAlways == AvatarSpec => []AvatarInv
BY AvatarInvInit, AvatarInvStep, PTL DEF AvatarSpec

-----------------------------------------------------------------------------
(* The toast of the item awarded last.                                     *)

ToastInv ==
  /\ inventory \in [usd : Int, slots : [Wares -> Nat], lastAwarded : Wares \union {NoItem}]
  /\ toast \in [mounted : BOOLEAN, visible : BOOLEAN, timer : BOOLEAN, clearing : BOOLEAN]
  /\ toast.visible => toast.mounted
  /\ ToastInSightWillGo

\* The effect of the toast keeps it: an item shown has its timer, nothing shown has none.
LEMMA ToldItemKeeps ==
  ASSUME NEW t \in [mounted : BOOLEAN, visible : BOOLEAN, timer : BOOLEAN, clearing : BOOLEAN],
         NEW item
  PROVE  /\ ToldItem(t, item) \in [mounted : BOOLEAN, visible : BOOLEAN, timer : BOOLEAN,
                                   clearing : BOOLEAN]
         /\ ToldItem(t, item).mounted = t.mounted
         /\ ToldItem(t, item).visible <=> item # NoItem
         /\ ToldItem(t, item).timer <=> item # NoItem
BY DEF ToldItem

LEMMA ToastAlways == ShopSpec => []ToastInv
<1>1. ShopInit => ToastInv
  BY DEF ShopInit, ToastInv, ToastInSightWillGo
<1>2. ToastInv /\ [ShopNext]_shopVars => ToastInv'
  <2> SUFFICES ASSUME ToastInv, [ShopNext]_shopVars PROVE ToastInv'
    OBVIOUS
  <2>1. ASSUME NEW amount \in Grants, AddCurrency(amount) PROVE ToastInv'
    BY <2>1, ShopAssumption DEF AddCurrency, ToastInv, ToastInSightWillGo
  <2>2. ASSUME NEW w \in Wares, NEW inv \in {inventory, Deducted(inventory, w)},
               inventory' = Awarded(inv, w),
               toast' = AfterLast(toast, inventory.lastAwarded, w)
        PROVE  ToastInv'
    <3>1. inv \in [usd : Int, slots : [Wares -> Nat], lastAwarded : Wares \union {NoItem}]
      BY ShopAssumption DEF ToastInv, Deducted
    <3>2. /\ inventory' \in [usd : Int, slots : [Wares -> Nat],
                             lastAwarded : Wares \union {NoItem}]
          /\ inventory'.lastAwarded = w /\ w # NoItem
      <4>1. inventory' = [inv EXCEPT !.slots = [inv.slots EXCEPT ![w] = inv.slots[w] + 1],
                                     !.lastAwarded = w]
        BY <2>2, <3>1 DEF Awarded
      <4>2. inv.slots \in [Wares -> Nat] /\ inv.slots[w] + 1 \in Nat
        BY <3>1
      <4>3. [inv.slots EXCEPT ![w] = inv.slots[w] + 1] \in [Wares -> Nat]
        BY <4>2
      <4> QED
        BY <3>1, <4>1, <4>3, ShopAssumption
    <3> QED
      BY <2>2, <3>2, ToldItemKeeps DEF AfterLast, ToastInv, ToastInSightWillGo
  <2>3. ASSUME NEW t \in [mounted : BOOLEAN, visible : BOOLEAN, timer : BOOLEAN,
                          clearing : BOOLEAN],
               t.mounted = toast.mounted, t.visible => toast.visible,
               ClearLastAwarded(t)
        PROVE  ToastInv'
    BY <2>3, ToldItemKeeps DEF ClearLastAwarded, AfterLast, ToastInv, ToastInSightWillGo
  <2>4. CASE ToastTimer \/ ToastUnmounts
    BY <2>4 DEF ToastTimer, ToastUnmounts, ToastInv, ToastInSightWillGo
  <2>5. CASE ToastMounts
    <3> DEFINE t == [toast EXCEPT !.mounted = TRUE]
    <3>1. t \in [mounted : BOOLEAN, visible : BOOLEAN, timer : BOOLEAN, clearing : BOOLEAN]
      BY DEF ToastInv
    <3>2. t.mounted
      BY DEF ToastInv
    <3>3. toast' = ToldItem(t, inventory.lastAwarded) /\ inventory' = inventory
      BY <2>5 DEF ToastMounts
    <3> HIDE DEF t
    <3> QED
      BY <3>1, <3>2, <3>3, ToldItemKeeps DEF ToastInv, ToastInSightWillGo
  <2>6. CASE ClearFires \/ HandleDismiss
    <3>1. /\ [toast EXCEPT !.clearing = FALSE]
               \in [mounted : BOOLEAN, visible : BOOLEAN, timer : BOOLEAN, clearing : BOOLEAN]
          /\ [toast EXCEPT !.visible = FALSE, !.timer = FALSE]
               \in [mounted : BOOLEAN, visible : BOOLEAN, timer : BOOLEAN, clearing : BOOLEAN]
      BY DEF ToastInv
    <3> QED
      BY <2>3, <2>6, <3>1 DEF ClearFires, HandleDismiss, ToastInv
  <2>7. CASE UNCHANGED <<inventory, toast>>
    BY <2>7 DEF ToastInv, ToastInSightWillGo
  <2> QED
    BY <2>1, <2>2, <2>4, <2>5, <2>6, <2>7
       DEF ShopNext, QuestAwards, HandlePurchase, Bought, ToggleShop, ClickClose, ExitEnds,
           ShopEvent, shopVars
<1> QED
  BY <1>1, <1>2, PTL DEF ShopSpec

-----------------------------------------------------------------------------
(* The purse: what quests granted is in it, or was paid for a ware.        *)

\* What so many of each ware cost.
Spent(b) == SumOver([w \in Wares |-> WarePrices[w] * b[w]], Wares)

Numbers == [Wares -> Nat]
Histories == [granted : Nat, grants : Nat, bought : Numbers, awards : Nat]

PurseInv ==
  /\ inventory.usd \in Nat /\ ledgerOf \in Histories
  /\ ledgerOf.granted = inventory.usd + Spent(ledgerOf.bought)

LEMMA OneTimesMore == ASSUME NEW p \in Nat, NEW n \in Nat PROVE p * n \in Nat /\ p * (n + 1) = p * n + p
OBVIOUS

LEMMA SpentType == ASSUME NEW b \in [Wares -> Nat] PROVE Spent(b) \in Nat
<1> DEFINE costs == [v \in Wares |-> WarePrices[v] * b[v]]
<1>1. IsFiniteSet(Wares) /\ \A v \in Wares : costs[v] \in Nat
  BY ShopAssumption, OneTimesMore
<1>2. Spent(b) = SumOver(costs, Wares)
  BY DEF Spent
<1> HIDE DEF costs
<1> QED BY <1>1, <1>2, SumType

LEMMA SpentOnOneMore ==
  ASSUME NEW b \in [Wares -> Nat], NEW w \in Wares
  PROVE  Spent([b EXCEPT ![w] = @ + 1]) = Spent(b) + WarePrices[w]
<1> DEFINE more == [b EXCEPT ![w] = @ + 1]
           costs == [v \in Wares |-> WarePrices[v] * b[v]]
           price == WarePrices[w]
           after == [v \in Wares |-> WarePrices[v] * more[v]]
<1>1. IsFiniteSet(Wares) /\ \A v \in Wares : WarePrices[v] \in Nat
  BY ShopAssumption
<1>2. \A v \in Wares : costs[v] \in Nat
  BY <1>1, OneTimesMore
<1>3. after[w] = costs[w] + price /\ price \in Nat
  <2>1. b[w] \in Nat /\ more[w] = b[w] + 1
    OBVIOUS
  <2> QED BY <1>1, <2>1, OneTimesMore
<1>4. \A v \in Wares \ {w} : after[v] = costs[v]
  OBVIOUS
<1>5. Spent(more) = SumOver(after, Wares) /\ Spent(b) = SumOver(costs, Wares)
  BY DEF Spent
<1> HIDE DEF more, costs, after, price
<1>6. SumOver(after, Wares) = SumOver(costs, Wares) + price
  BY <1>1, <1>2, <1>3, <1>4, SumGrows
<1> QED BY <1>5, <1>6 DEF more, price

\* A ware is given only when the purse holds its price, which is taken first.
LEMMA BoughtIsPaid ==
  ASSUME ToastInv, PurseInv, NEW w \in Wares, Affordable(w), Bought(w)
  PROVE  PurseInv'
<1> DEFINE b == ledgerOf.bought
           more == [b EXCEPT ![w] = @ + 1]
           left == inventory.usd - WarePrices[w]
           n == ledgerOf.awards + 1
<1>1. /\ WarePrices[w] \in Nat /\ inventory.usd \in Nat /\ b \in [Wares -> Nat]
      /\ ledgerOf.granted = inventory.usd + Spent(b) /\ ledgerOf.granted \in Nat
  BY ShopAssumption DEF PurseInv, Histories, Numbers
<1>2. left \in Nat
  BY <1>1 DEF Affordable
<1>3. inventory'.usd = left
  BY DEF ToastInv, Bought, Awarded, Deducted
<1>4. /\ ledgerOf' \in Histories
      /\ ledgerOf'.granted = ledgerOf.granted /\ ledgerOf'.bought = more
  <2>1. ledgerOf' = [ledgerOf EXCEPT !.bought = more, !.awards = n]
    BY DEF PurseInv, Bought
  <2>2. more \in Numbers
    <3>1. b[w] + 1 \in Nat
      BY <1>1
    <3> QED BY <1>1, <3>1 DEF Numbers
  <2>3. n \in Nat
    BY DEF PurseInv, Histories
  <2> HIDE DEF more, n
  <2> QED BY <2>1, <2>2, <2>3 DEF PurseInv, Histories
<1>5. Spent(more) = Spent(b) + WarePrices[w] /\ Spent(b) \in Nat
  BY <1>1, SpentOnOneMore, SpentType
<1> HIDE DEF b, more
<1>6. ledgerOf.granted = left + Spent(more)
  BY <1>1, <1>5
<1> QED BY <1>2, <1>3, <1>4, <1>6 DEF PurseInv

LEMMA PurseAlways == ShopSpec => []PaidForWhatWasBought
<1>1. ShopInit => PurseInv
  <2> SUFFICES ASSUME ShopInit PROVE PurseInv
    OBVIOUS
  <2> DEFINE none == [w \in Wares |-> 0]
             costs == [w \in Wares |-> WarePrices[w] * none[w]]
  <2>1. \A w \in Wares : costs[w] = 0
    BY ShopAssumption
  <2>2. Spent(none) = SumOver(costs, Wares)
    BY DEF Spent
  <2>3. none \in [Wares -> Nat]
    OBVIOUS
  <2>4. inventory.usd = 0 /\ ledgerOf = [granted |-> 0, grants |-> 0, bought |-> none, awards |-> 0]
    BY DEF ShopInit
  <2> HIDE DEF none, costs
  <2>5. SumOver(costs, Wares) = 0
    BY <2>1, ShopAssumption, SumOfNothing
  <2> QED BY <2>2, <2>3, <2>4, <2>5 DEF PurseInv, Histories, Numbers
<1>2. ToastInv /\ PurseInv /\ [ShopNext]_shopVars => PurseInv'
  <2> SUFFICES ASSUME ToastInv, PurseInv, [ShopNext]_shopVars PROVE PurseInv'
    OBVIOUS
  <2>1. ASSUME NEW amount \in Grants, AddCurrency(amount) PROVE PurseInv'
    <3> DEFINE g == ledgerOf.granted + amount
               n == ledgerOf.grants + 1
    <3>1. g \in Nat /\ n \in Nat /\ amount \in Nat /\ ledgerOf.bought \in [Wares -> Nat]
      BY ShopAssumption DEF PurseInv, Histories, Numbers
    <3>2. Spent(ledgerOf.bought) \in Nat
      BY <3>1, SpentType
    <3>3. inventory'.usd = inventory.usd + amount
      BY <2>1 DEF AddCurrency, ToastInv
    <3>4. ledgerOf' = [ledgerOf EXCEPT !.granted = g, !.grants = n]
      BY <2>1 DEF AddCurrency
    <3>5. /\ ledgerOf' \in Histories
          /\ ledgerOf'.granted = g /\ ledgerOf'.bought = ledgerOf.bought
      <4> HIDE DEF g, n
      <4> QED BY <3>1, <3>4 DEF PurseInv, Histories
    <3> QED BY <3>1, <3>2, <3>3, <3>5 DEF PurseInv
  <2>2. ASSUME NEW w \in Wares, QuestAwards(w) PROVE PurseInv'
    BY <2>2 DEF QuestAwards, Awarded, ToastInv, PurseInv, Histories
  <2>3. ASSUME NEW w \in Wares, HandlePurchase(w) PROVE PurseInv'
    BY <2>3, BoughtIsPaid DEF HandlePurchase
  <2>4. CASE UNCHANGED ledgerOf /\ inventory'.usd = inventory.usd
    BY <2>4 DEF PurseInv
  <2> QED
    BY <2>1, <2>2, <2>3, <2>4
       DEF ShopNext, ToggleShop, ClickClose, ExitEnds, ShopEvent, ToastTimer, ClearFires, HandleDismiss,
           ToastUnmounts, ToastMounts, ClearLastAwarded, ToastInv, shopVars
<1>3. PurseInv => PaidForWhatWasBought
  BY DEF PurseInv, PaidForWhatWasBought, Spent, SumOver, Paid
<1> QED
  BY <1>1, <1>2, <1>3, ToastAlways, PTL DEF ShopSpec

-----------------------------------------------------------------------------
(* What is seen and heard.                                                 *)

\* One loop at its volume, the player where it was reported and looking where it went, the
\* switcher on the world in force, a toast that will go away: for any set of cues, sheets,
\* worlds and wares (audioEngine, Player, theme_runtime, InventoryToast).
THEOREM SeenAndHeard ==
  AudioSpec /\ AvatarSpec /\ WorldsSpec /\ ShopSpec => []SeenAndHeardAsStored
<1>1. AudioTypeOK /\ AudioInv /\ AvatarInv /\ SwitcherMarksTheTheme /\ ToastInv => SeenAndHeardAsStored
  BY DEF AudioInv, AvatarInv, ToastInv, SeenAndHeardAsStored
<1> QED
  BY <1>1, AudioAlways, AvatarAlways, SwitcherAgrees, ToastAlways, PTL

-----------------------------------------------------------------------------
(* The cinematic.                                                          *)

CinematicTypes ==
  /\ reveal \in [scene : {"none", "playing", "stopping", "stopped"}, startedAt : Nat,
                 clock : Nat, tween : Nat, completed : BOOLEAN,
                 endedBy : {"nothing", "fade", "fallback"}, duration : Nat]
  /\ cineEvents \in [start : Nat, complete : Nat, lost : Nat]

\* The timers' clock is never behind the tweens', what plays has not completed, and what
\* the fade ended had faded out.
CinematicInv ==
  /\ CinematicTypes
  /\ reveal.tween <= reveal.clock
  /\ reveal.scene = "playing" => ~reveal.completed /\ reveal.endedBy = "nothing"
  /\ reveal.endedBy = "fade" => FadeCompletes(reveal)
  /\ CompletedOncePerReveal

\* A frame that ends the cinematic ends it once.
LEMMA RevealFrameKeeps ==
  ASSUME CinematicInv, NEW dt \in Frames, RevealFrame(dt)
  PROVE  CinematicInv'
<1> DEFINE r == [reveal EXCEPT !.clock = @ + dt, !.tween = @ + TweenStep(dt)]
           n == FinishCount(r)
<1>1. dt \in Nat /\ TweenStep(dt) \in Nat /\ TweenStep(dt) <= dt
  BY CinematicAssumption DEF TweenStep
<1>2. /\ r \in [scene : {"none", "playing", "stopping", "stopped"}, startedAt : Nat,
                clock : Nat, tween : Nat, completed : BOOLEAN,
                endedBy : {"nothing", "fade", "fallback"}, duration : Nat]
      /\ r.scene = "playing" /\ ~r.completed /\ r.endedBy = "nothing"
      /\ r.tween <= r.clock
  <2>1. /\ reveal.scene = "playing" /\ ~reveal.completed /\ reveal.endedBy = "nothing"
        /\ reveal.tween <= reveal.clock /\ reveal.clock \in Nat /\ reveal.tween \in Nat
    BY DEF RevealFrame, CinematicInv, CinematicTypes
  <2>2. /\ reveal.clock + dt \in Nat /\ reveal.tween + TweenStep(dt) \in Nat
        /\ reveal.tween + TweenStep(dt) <= reveal.clock + dt
    BY <1>1, <2>1
  <2>3. /\ r.clock = reveal.clock + dt /\ r.tween = reveal.tween + TweenStep(dt)
        /\ r.scene = reveal.scene /\ r.completed = reveal.completed
        /\ r.endedBy = reveal.endedBy
    BY DEF CinematicInv, CinematicTypes
  <2>4. r \in [scene : {"none", "playing", "stopping", "stopped"}, startedAt : Nat,
               clock : Nat, tween : Nat, completed : BOOLEAN,
               endedBy : {"nothing", "fade", "fallback"}, duration : Nat]
    BY <2>2 DEF CinematicInv, CinematicTypes
  <2> QED
    BY <2>1, <2>2, <2>3, <2>4
<1>3. n \in {0, 1} /\ (n = 0 <=> ~(FadeCompletes(r) \/ FallbackFires(r)))
  BY <1>2 DEF FinishCount
<1>4. /\ reveal' = IF n = 0 THEN r
                   ELSE [r EXCEPT !.scene = "stopping", !.completed = TRUE, !.duration = r.clock,
                                  !.endedBy = IF FadeCompletes(r) THEN "fade" ELSE "fallback"]
      /\ cineEvents' = [cineEvents EXCEPT !.complete = @ + n]
      /\ reveal.scene = "playing"
  BY DEF RevealFrame
<1> HIDE DEF r, n
<1>5. CASE n = 0
  <2>1. reveal' = r /\ cineEvents' = cineEvents
    BY <1>4, <1>5 DEF CinematicInv, CinematicTypes
  <2> QED
    BY <1>2, <1>4, <2>1 DEF CinematicInv, CinematicTypes, CompletedOncePerReveal
<1>6. CASE n = 1
  <2>1. /\ reveal' = [r EXCEPT !.scene = "stopping", !.completed = TRUE, !.duration = r.clock,
                               !.endedBy = IF FadeCompletes(r) THEN "fade" ELSE "fallback"]
        /\ cineEvents' = [cineEvents EXCEPT !.complete = @ + 1]
    BY <1>4, <1>6
  <2>2. CinematicTypes' /\ (reveal.tween <= reveal.clock)'
    <3>1. reveal' \in [scene : {"none", "playing", "stopping", "stopped"}, startedAt : Nat,
                       clock : Nat, tween : Nat, completed : BOOLEAN,
                       endedBy : {"nothing", "fade", "fallback"}, duration : Nat]
      BY <1>2, <2>1
    <3>2. reveal'.tween = r.tween /\ reveal'.clock = r.clock
      BY <1>2, <2>1
    <3>3. cineEvents' \in [start : Nat, complete : Nat, lost : Nat]
      BY <2>1 DEF CinematicInv, CinematicTypes
    <3> QED
      BY <1>2, <3>1, <3>2, <3>3 DEF CinematicTypes
  <2>3. reveal'.scene = "stopping" /\ reveal'.tween = r.tween /\ reveal'.startedAt = r.startedAt
    BY <1>2, <2>1
  <2>4. reveal'.endedBy = "fade" => FadeCompletes(r)
    BY <1>2, <2>1
  <2>5. (reveal.endedBy = "fade" => FadeCompletes(reveal))'
    BY <2>3, <2>4 DEF FadeCompletes
  <2>6. CompletedOncePerReveal'
    BY <1>4, <2>1, <2>3 DEF CinematicInv, CinematicTypes, CompletedOncePerReveal
  <2> QED
    BY <2>2, <2>3, <2>5, <2>6 DEF CinematicInv
<1> QED
  BY <1>3, <1>5, <1>6

LEMMA CinematicAlways == CinematicSpec => []CinematicInv
<1>1. CinematicInit => CinematicInv
  BY DEF CinematicInit, NoReveal, CinematicInv, CinematicTypes, CompletedOncePerReveal
<1>2. CinematicInv /\ [CinematicNext]_cinematicVars => CinematicInv'
  <2> SUFFICES ASSUME CinematicInv, [CinematicNext]_cinematicVars PROVE CinematicInv'
    OBVIOUS
  <2>1. ASSUME NEW now \in LoopTimes, CreateReveal(now) PROVE CinematicInv'
    <3>1. /\ reveal' = [scene |-> "playing", startedAt |-> now, clock |-> 0, tween |-> 0,
                        completed |-> FALSE, endedBy |-> "nothing", duration |-> 0]
          /\ cineEvents' = [cineEvents EXCEPT !.start = @ + 1]
          /\ reveal.scene # "playing" /\ now \in Nat
      BY <2>1, CinematicAssumption DEF CreateReveal, NoReveal
    <3>2. /\ cineEvents' \in [start : Nat, complete : Nat, lost : Nat]
          /\ cineEvents'.start = cineEvents.start + 1
          /\ cineEvents'.complete = cineEvents.complete
          /\ cineEvents'.lost = cineEvents.lost
      BY <3>1 DEF CinematicInv, CinematicTypes
    <3>3. CinematicTypes'
      BY <3>1, <3>2 DEF CinematicTypes
    <3>4. CompletedOncePerReveal'
      BY <3>1, <3>2 DEF CompletedOncePerReveal, CinematicInv, CinematicTypes
    <3> QED
      BY <3>1, <3>3, <3>4 DEF CinematicInv
  <2>2. ASSUME NEW dt \in Frames, RevealFrame(dt) PROVE CinematicInv'
    BY <2>2, RevealFrameKeeps
  <2>3. CASE TeardownTimeline
    BY <2>3 DEF TeardownTimeline, FadeCompletes, CinematicInv, CinematicTypes,
                CompletedOncePerReveal
  <2>4. CASE RemountGame
    BY <2>4 DEF RemountGame, NoReveal, CinematicInv, CinematicTypes, CompletedOncePerReveal
  <2>5. CASE UNCHANGED cinematicVars
    BY <2>5 DEF cinematicVars, CinematicInv, CinematicTypes, CompletedOncePerReveal,
                FadeCompletes
  <2> QED
    BY <2>1, <2>2, <2>3, <2>4, <2>5 DEF CinematicNext
<1> QED
  BY <1>1, <1>2, PTL DEF CinematicSpec

\* What is due before the fade begins is shown when it ends, whenever the scene started.
LEMMA DueBeforeTheFade ==
  ASSUME NEW s \in Nat, NEW at \in Nat, at <= T_FADE_OUT_START,
         NEW t \in Nat, t >= FadeOutEnds(s)
  PROVE  Delay(at, s) <= t
BY DEF Delay, FadeOutEnds, T_FADE_OUT_START, T_FADE_OUT_END

\* The agents appear before the fade, however many the roster has.
LEMMA AgentsBeforeTheFade ==
  ASSUME NEW n \in Roster22
  PROVE  /\ T_NODE_SPAWN_START + (n - 1) * StepMs \in Nat
         /\ T_NODE_SPAWN_START + (n - 1) * StepMs <= T_FADE_OUT_START
<1>1. AGENTS \in Nat /\ AGENTS > 0 /\ n \in Nat /\ n - 1 \in Nat /\ n - 1 <= AGENTS
  BY CinematicAssumption DEF Roster22
<1>2. StepMs \in Nat /\ AGENTS * StepMs <= 4800
  BY <1>1 DEF StepMs, T_NODE_SPAWN_END, T_NODE_SPAWN_START
<1>3. (n - 1) * StepMs \in Nat /\ (n - 1) * StepMs <= AGENTS * StepMs
  <2>1. \A k, m, d \in Nat : k <= m => k * d \in Nat /\ k * d <= m * d
    OBVIOUS
  <2> QED
    BY <1>1, <1>2, <2>1
<1>4. \A x, y \in Nat : x <= y /\ y <= 4800 => x <= 4800
  OBVIOUS
<1>5. PICK x \in Nat : x = (n - 1) * StepMs /\ x <= 4800
  <2>1. AGENTS * StepMs \in Nat
    BY <1>1, <1>2
  <2> QED
    BY <1>2, <1>3, <1>4, <2>1
<1>6. T_NODE_SPAWN_START + x \in Nat /\ T_NODE_SPAWN_START + x <= T_FADE_OUT_START
  BY <1>5 DEF T_NODE_SPAWN_START, T_FADE_OUT_START
<1> QED
  BY <1>5, <1>6, Zenon

LEMMA FadeShowsEverything ==
  ASSUME CinematicInv, reveal.endedBy = "fade"
  PROVE  AgentsShown = Roster22 /\ Cardinality(CuesShown) = 5 /\ BeatShown = 3
<1> DEFINE s == reveal.startedAt
<1>1. /\ s \in Nat /\ reveal.tween \in Nat /\ reveal.clock \in Nat
      /\ reveal.tween >= FadeOutEnds(s) /\ reveal.clock >= FadeOutEnds(s)
  <2>1. FadeOutEnds(s) \in Int
    BY DEF CinematicInv, CinematicTypes, FadeOutEnds, Delay, T_FADE_OUT_START, T_FADE_OUT_END
  <2> QED
    BY <2>1 DEF CinematicInv, CinematicTypes, FadeCompletes
<1>2. \A at \in Nat :
        at <= T_FADE_OUT_START => Delay(at, s) <= reveal.tween /\ Delay(at, s) <= reveal.clock
  BY <1>1, DueBeforeTheFade
<1>3. AgentsShown = Roster22
  BY <1>2, AgentsBeforeTheFade DEF AgentsShown, NodeDelay
<1>4. Cardinality(CuesShown) = 5
  <2>1. CuesShown = {"opening", "leads", "others", "highlight", "camera"}
    <3>1. /\ OpeningDelay <= reveal.tween
          /\ ConnectorDelay("leads", s) <= reveal.tween
          /\ ConnectorDelay("others", s) <= reveal.tween
          /\ HighlightDelay(s) <= reveal.tween
          /\ CameraDelay(s) <= reveal.tween
      <4>1. /\ 5200 <= T_FADE_OUT_START /\ 5500 <= T_FADE_OUT_START
            /\ 7800 <= T_FADE_OUT_START /\ 8800 <= T_FADE_OUT_START
        BY DEF T_FADE_OUT_START
      <4>2. /\ Delay(5200, s) <= reveal.tween /\ Delay(5500, s) <= reveal.tween
            /\ Delay(7800, s) <= reveal.tween /\ Delay(8800, s) <= reveal.tween
        BY <1>2, <4>1
      <4>3. /\ ConnectorDelay("leads", s) = Delay(5200, s)
            /\ ConnectorDelay("others", s) = Delay(5500, s)
            /\ HighlightDelay(s) = Delay(7800, s) /\ CameraDelay(s) = Delay(8800, s)
        BY DEF ConnectorDelay, HighlightDelay, CameraDelay, T_CONNECTOR_START,
               T_MA_PULSE_START, T_CAMERA_START
      <4>4. OpeningDelay <= reveal.tween
        BY <1>1 DEF OpeningDelay
      <4> QED
        BY <4>2, <4>3, <4>4
    <3> QED
      BY <3>1 DEF CuesShown
  <2>2. IsFiniteSet({"opening"}) /\ Cardinality({"opening"}) = 1
    BY FS_Singleton
  <2>3. IsFiniteSet({"opening", "leads"}) /\ Cardinality({"opening", "leads"}) = 2
    <3>1. {"opening", "leads"} = {"opening"} \cup {"leads"}
      OBVIOUS
    <3> QED
      BY <2>2, <3>1, FS_AddElement
  <2>4. /\ IsFiniteSet({"opening", "leads", "others"})
        /\ Cardinality({"opening", "leads", "others"}) = 3
    <3>1. {"opening", "leads", "others"} = {"opening", "leads"} \cup {"others"}
      OBVIOUS
    <3> QED
      BY <2>3, <3>1, FS_AddElement
  <2>5. /\ IsFiniteSet({"opening", "leads", "others", "highlight"})
        /\ Cardinality({"opening", "leads", "others", "highlight"}) = 4
    <3>1. {"opening", "leads", "others", "highlight"}
            = {"opening", "leads", "others"} \cup {"highlight"}
      OBVIOUS
    <3> QED
      BY <2>4, <3>1, FS_AddElement
  <2>6. Cardinality({"opening", "leads", "others", "highlight", "camera"}) = 5
    <3> DEFINE Four == {"opening", "leads", "others", "highlight"}
    <3>1. {"opening", "leads", "others", "highlight", "camera"} = Four \cup {"camera"}
      BY Zenon
    <3>2. "camera" \notin Four
      OBVIOUS
    <3>3. IsFiniteSet(Four) /\ Cardinality(Four) = 4
      BY <2>5
    <3> HIDE DEF Four
    <3>4. Cardinality(Four \cup {"camera"}) = Cardinality(Four) + 1
      BY <3>2, <3>3, FS_AddElement
    <3> QED
      BY <3>1, <3>3, <3>4
  <2> QED
    BY <2>1, <2>6
<1>5. BeatShown = 3
  <2>1. DOMAIN Narration = {1, 2, 3}
    BY DEF Narration
  <2>2. /\ Delay(Narration[1].start, s) <= reveal.clock
        /\ Delay(Narration[2].start, s) <= reveal.clock
        /\ Delay(Narration[3].start, s) <= reveal.clock
    <3>1. /\ Narration[1].start = 700 /\ Narration[2].start = 3600
          /\ Narration[3].start = 7600
      BY DEF Narration
    <3>2. /\ 700 <= T_FADE_OUT_START /\ 3600 <= T_FADE_OUT_START
          /\ 7600 <= T_FADE_OUT_START
      BY DEF T_FADE_OUT_START
    <3> QED
      BY <1>2, <3>1, <3>2
  <2>3. {b \in DOMAIN Narration : Delay(Narration[b].start, s) <= reveal.clock} = {1, 2, 3}
    BY <2>1, <2>2
  <2>4. (CHOOSE b \in {1, 2, 3} : \A c \in {1, 2, 3} : c <= b) = 3
    OBVIOUS
  <2> QED
    BY <2>3, <2>4 DEF BeatShown
<1> QED
  BY <1>3, <1>4, <1>5

\* The reveal ends once, and by its fade only when agents, connectors, highlight, camera and
\* narration have been shown, however long the frames and whenever the loop was when the scene
\* was created (MiniBuilderCinematicScene).
THEOREM FilmRunsInCharge == CinematicSpec => []FilmInCharge
<1>1. CinematicInv => FilmInCharge
  BY FadeShowsEverything DEF CinematicInv, FilmInCharge, EverythingShownBeforeTheFade
<1> QED
  BY <1>1, CinematicAlways, PTL

-----------------------------------------------------------------------------
(* The workshop.                                                           *)

Modes == {"theatrical", "live"}

Works == [phase : Phases, tier : Tiers \union {Absent}, template : Tiers \union {Absent},
          config : (SUBSET Vendors) \union {Absent}, loads : [Tiers -> Nat]]
Byoks == [key : ApiKeys \union {Absent}, mode : Modes, runs : 0 .. RUNS,
          storedKey : ApiKeys \union {Absent}, storedRuns : 0 .. RUNS]
Modals == [open : BOOLEAN, tier : Tiers \union {Absent}, primary : Vendors,
           selected : SUBSET Vendors, multi : BOOLEAN]
Spawns == [mounted : BOOLEAN, seen : {<<>>} \union (Modes \X (ApiKeys \union {Absent}) \X (0 .. RUNS)),
           fired : BOOLEAN, answer : {"none", "awaited", "cancelled", "shown"}]
Calls == [all : Nat, here : Nat, chosen : BOOLEAN]

WorkshopTypes ==
  work \in Works /\ byok \in Byoks /\ modal \in Modals /\ spawn \in Spawns /\ calls \in Calls

\* The animation is on the page exactly when the dialogue shows one, forgets everything when
\* it leaves, and has made the one call of its own that it remembers.
AnimationInv ==
  /\ spawn.mounted = Animated(work)
  /\ ~spawn.mounted => spawn = Unmounted
  /\ calls.here = IF spawn.fired THEN 1 ELSE 0

\* An animation that could spend the user's key was chosen to.
ConsentInv == spawn.mounted /\ byok.mode = "live" => calls.chosen

WorkshopInv ==
  /\ WorkshopTypes /\ AnimationInv /\ ConsentInv
  /\ RunsAccountForCalls /\ KeyInOnePlace /\ VendorLineup

LEMMA WorkshopInvInit == WorkshopInit => WorkshopInv
<1> SUFFICES ASSUME WorkshopInit PROVE WorkshopInv
  OBVIOUS
<1> USE WorkshopAssumption DEF WorkshopInit
<1>1. work \in Works
  BY DEF Works, ClosedWork, Phases
<1>2. byok \in Byoks
  BY DEF Byoks, Modes
<1>3. modal \in Modals
  BY DEF Modals
<1>4. spawn \in Spawns
  BY DEF Spawns, Unmounted
<1>5. calls \in Calls
  BY DEF Calls
<1>6. AnimationInv /\ ConsentInv
  BY DEF AnimationInv, ConsentInv, Animated, ClosedWork, Unmounted
<1>7. RunsAccountForCalls /\ KeyInOnePlace /\ VendorLineup
  BY DEF RunsAccountForCalls, KeyInOnePlace, VendorLineup
<1> QED
  BY <1>1, <1>2, <1>3, <1>4, <1>5, <1>6, <1>7 DEF WorkshopInv, WorkshopTypes

\* A rendering that mounts no animation anew: the dialogue moves, the key stays.
LEMMA RenderedStep ==
  ASSUME WorkshopInv, NEW w \in Works, Rendered(w), Animated(w) => spawn.mounted,
         byok' = byok, modal' \in Modals, VendorLineup'
  PROVE  WorkshopInv'
<1>1. work' = w /\ Animated(work') = Animated(w)
  BY DEF Rendered, Animated
<1>2. Animated(w) \in BOOLEAN /\ spawn.mounted \in BOOLEAN
  BY DEF Animated, WorkshopInv, WorkshopTypes, Spawns
<1>3. CASE Animated(w) = spawn.mounted
  <2>1. spawn' = spawn /\ calls' = calls
    BY <1>3 DEF Rendered
  <2> QED
    BY <1>1, <1>3, <2>1 DEF WorkshopInv, WorkshopTypes, AnimationInv, ConsentInv,
                            RunsAccountForCalls, KeyInOnePlace
<1>4. CASE Animated(w) # spawn.mounted
  <2>1. Animated(w) = FALSE /\ spawn.mounted = TRUE
    BY <1>2, <1>4
  <2>2. spawn' = [Unmounted EXCEPT !.mounted = Animated(w)] /\ calls' = [calls EXCEPT !.here = 0]
    BY <1>4 DEF Rendered
  <2>3. spawn' = Unmounted /\ spawn' \in Spawns /\ spawn'.mounted = FALSE /\ spawn'.fired = FALSE
    <3>1. spawn' = [Unmounted EXCEPT !.mounted = FALSE]
      BY <2>1, <2>2, Zenon
    <3> QED
      BY <3>1 DEF Unmounted, Spawns
  <2>4. calls' \in Calls /\ calls'.all = calls.all /\ calls'.here = 0
    BY <2>2 DEF WorkshopInv, WorkshopTypes, Calls
  <2>5. WorkshopTypes'
    BY <1>1, <2>3, <2>4 DEF WorkshopInv, WorkshopTypes
  <2>6. AnimationInv'
    BY <1>1, <2>1, <2>3, <2>4 DEF AnimationInv
  <2> QED
    BY <2>3, <2>4, <2>5, <2>6
       DEF WorkshopInv, ConsentInv, RunsAccountForCalls, KeyInOnePlace
<1> QED
  BY <1>3, <1>4

\* Steps that leave the dialogue, the key and the animation alone.
LEMMA ModalStep ==
  ASSUME WorkshopInv, UNCHANGED <<work, byok, spawn, calls>>, modal' \in Modals, VendorLineup'
  PROVE  WorkshopInv'
BY DEF WorkshopInv, WorkshopTypes, AnimationInv, ConsentInv, RunsAccountForCalls,
       KeyInOnePlace, Animated

LEMMA ModalOperations ==
  ASSUME WorkshopInv
  PROVE  /\ \A tier \in Tiers : LET m == OpenModal(tier)
              IN m \in Modals /\ m.primary \in m.selected /\ (~m.multi => m.selected = {m.primary})
         /\ \A v \in Vendors : LET m == SetPrimaryVendor(modal, v)
              IN m \in Modals /\ m.primary \in m.selected /\ (~m.multi => m.selected = {m.primary})
         /\ \A v \in Vendors : modal.multi /\ v # modal.primary =>
              LET m == ToggleVendor(modal, v)
              IN m \in Modals /\ m.primary \in m.selected /\ (~m.multi => m.selected = {m.primary})
         /\ LET m == SingleVendor(modal)
            IN m \in Modals /\ m.primary \in m.selected /\ (~m.multi => m.selected = {m.primary})
<1> USE WorkshopAssumption DEF WorkshopInv, WorkshopTypes, Modals, VendorLineup
<1>1. ASSUME NEW tier \in Tiers
      PROVE  LET m == OpenModal(tier)
             IN m \in Modals /\ m.primary \in m.selected /\ (~m.multi => m.selected = {m.primary})
  BY DEF OpenModal
<1>2. ASSUME NEW v \in Vendors
      PROVE  LET m == SetPrimaryVendor(modal, v)
             IN m \in Modals /\ m.primary \in m.selected /\ (~m.multi => m.selected = {m.primary})
  BY DEF SetPrimaryVendor
<1>3. ASSUME NEW v \in Vendors, modal.multi, v # modal.primary
      PROVE  LET m == ToggleVendor(modal, v)
             IN m \in Modals /\ m.primary \in m.selected /\ (~m.multi => m.selected = {m.primary})
  BY <1>3 DEF ToggleVendor
<1>4. LET m == SingleVendor(modal)
      IN m \in Modals /\ m.primary \in m.selected /\ (~m.multi => m.selected = {m.primary})
  BY DEF SingleVendor
<1> QED
  BY <1>1, <1>2, <1>3, <1>4

\* Every rendering step of the dialogue lands in a well-formed one, and the only phase that
\* mounts the animation, spawning, is reached from the choice of the runtime.
LEMMA DialogueKeepsInv ==
  ASSUME WorkshopInv,
         \/ OpenWorkshop \/ CloseWorkshop \/ SubmitPrompt \/ ConfirmModal
         \/ Accept \/ Revise \/ LeaveRevising \/ AnimationEnds
         \/ \E t \in Tiers : Classify(t) \/ TemplateLoads(t) \/ TemplateFails(t)
  PROVE  WorkshopInv'
<1>0. /\ work \in Works /\ modal \in Modals /\ VendorLineup
      /\ spawn.mounted = Animated(work)
  BY DEF WorkshopInv, WorkshopTypes, AnimationInv
<1>1. ASSUME NEW w \in Works, Rendered(w), Animated(w) => spawn.mounted, byok' = byok,
             modal' = modal
      PROVE  WorkshopInv'
  BY <1>0, <1>1, RenderedStep DEF VendorLineup
<1>2. ASSUME NEW phase \in Phases, phase \notin {"spawning", "complete"}
      PROVE  /\ Emptied(phase) \in Works /\ ~Animated(Emptied(phase))
             /\ [work EXCEPT !.phase = phase] \in Works
             /\ ~Animated([work EXCEPT !.phase = phase])
  <2>1. [ClosedWork EXCEPT !.phase = phase] \in Works
    BY DEF ClosedWork, Works
  <2>2. Emptied(phase) = [[ClosedWork EXCEPT !.phase = phase] EXCEPT !.loads = work.loads]
    BY Zenon DEF Emptied
  <2>3. Emptied(phase) \in Works /\ Emptied(phase).phase = phase
    BY <1>0, <2>2 DEF ClosedWork, Works
  <2> QED
    BY <1>0, <1>2, <2>3 DEF Works, Animated
<1>3. CASE OpenWorkshop
  BY <1>1, <1>2, <1>3 DEF OpenWorkshop, Phases
<1>4. CASE CloseWorkshop
  BY <1>1, <1>2, <1>4 DEF CloseWorkshop, Phases
<1>5. CASE SubmitPrompt
  BY <1>1, <1>2, <1>5 DEF SubmitPrompt, Phases
<1>6. CASE Accept
  BY <1>1, <1>2, <1>6 DEF Accept, Phases
<1>7. CASE Revise
  BY <1>1, <1>2, <1>7 DEF Revise, Phases
<1>8. CASE LeaveRevising
  BY <1>1, <1>2, <1>8 DEF LeaveRevising, Phases
<1>9. CASE AnimationEnds
  <2>1. [work EXCEPT !.phase = "complete"] \in Works
    BY <1>0 DEF Works, Phases
  <2> QED
    BY <1>1, <1>9, <2>1 DEF AnimationEnds
<1>10. CASE ConfirmModal
  <2>1. modal' = [modal EXCEPT !.open = FALSE] /\ byok' = byok
    BY <1>10 DEF ConfirmModal
  <2>2. modal' \in Modals /\ VendorLineup'
    BY <1>0, <2>1 DEF Modals, VendorLineup
  <2>3. CASE ReachesTheWindow /\ work.phase = "template_summary"
    <3> DEFINE configured == [work EXCEPT !.config = modal.selected]
               proposed == [configured EXCEPT !.phase = "structure_proposal"]
    <3>1. configured \in Works
      BY <1>0 DEF Works, Modals
    <3> HIDE DEF configured
    <3>2. proposed \in Works /\ proposed.phase = "structure_proposal"
      BY <3>1 DEF Works, Phases
    <3>3. proposed = [work EXCEPT !.config = modal.selected, !.phase = "structure_proposal"]
      BY Zenon DEF configured
    <3> HIDE DEF proposed
    <3>4. Rendered(proposed) /\ ~Animated(proposed)
      BY <1>10, <2>3, <3>2, <3>3 DEF ConfirmModal, Animated
    <3> QED
      BY <2>1, <2>2, <3>2, <3>4, RenderedStep
  <2>4. CASE ~(ReachesTheWindow /\ work.phase = "template_summary")
    BY <1>10, <2>1, <2>2, <2>4, ModalStep DEF ConfirmModal
  <2> QED
    BY <2>3, <2>4
<1>11. ASSUME NEW t \in Tiers, Classify(t) PROVE WorkshopInv'
  <2> DEFINE told == [work EXCEPT !.tier = t]
             loading == [told EXCEPT !.loads = [work.loads EXCEPT ![t] = work.loads[t] + 1]]
  <2>1. told \in Works /\ told.phase = work.phase
    BY <1>0 DEF Works
  <2>2. [work.loads EXCEPT ![t] = work.loads[t] + 1] \in [Tiers -> Nat]
    BY <1>0 DEF Works
  <2>3. loading = [work EXCEPT !.tier = t, !.loads[t] = work.loads[t] + 1]
    BY <1>0 DEF Works
  <2> HIDE DEF told
  <2>4. loading \in Works /\ loading.phase = work.phase
    BY <2>1, <2>2 DEF Works
  <2> HIDE DEF loading
  <2>5. Rendered(loading) /\ ~Animated(loading) /\ byok' = byok /\ modal' = modal
    BY <1>11, <2>3, <2>4 DEF Classify, Animated
  <2> QED
    BY <1>1, <2>4, <2>5
<1>12. ASSUME NEW t \in Tiers, TemplateLoads(t) PROVE WorkshopInv'
  <2> DEFINE loaded == [work EXCEPT !.loads = [work.loads EXCEPT ![t] = work.loads[t] - 1]]
             chosen == [loaded EXCEPT !.template = t]
             summary == [chosen EXCEPT !.phase = "template_summary"]
  <2>1. [work.loads EXCEPT ![t] = work.loads[t] - 1] \in [Tiers -> Nat]
    <3>1. work.loads \in [Tiers -> Nat]
      BY <1>0 DEF Works
    <3>2. work.loads[t] > 0
      BY <1>12 DEF TemplateLoads
    <3>3. work.loads[t] \in Nat
      BY <3>1
    <3>4. work.loads[t] - 1 \in Nat
      BY <3>2, <3>3
    <3> QED
      BY <3>1, <3>4
  <2>2. loaded \in Works
    BY <1>0, <2>1 DEF Works
  <2>3. summary = [work EXCEPT !.loads[t] = work.loads[t] - 1, !.template = t,
                               !.phase = "template_summary"]
    BY <1>0 DEF Works
  <2> HIDE DEF loaded
  <2>4. summary \in Works /\ summary.phase = "template_summary"
    BY <2>2 DEF Works, Phases
  <2> HIDE DEF summary
  <2>5. Rendered(summary) /\ ~Animated(summary) /\ byok' = byok
    BY <1>12, <2>3, <2>4 DEF TemplateLoads, Animated
  <2>6. CASE work.phase # "template_summary" /\ work.tier # Absent
    <3>1. modal' = OpenModal(work.tier) /\ work.tier \in Tiers
      BY <1>0, <1>12, <2>6 DEF TemplateLoads, Works
    <3>2. modal' \in Modals /\ VendorLineup'
      BY <3>1, ModalOperations DEF VendorLineup
    <3> QED
      BY <2>4, <2>5, <3>2, RenderedStep
  <2>7. CASE ~(work.phase # "template_summary" /\ work.tier # Absent)
    BY <1>1, <1>12, <2>4, <2>5, <2>7 DEF TemplateLoads
  <2> QED
    BY <2>6, <2>7
<1>13. ASSUME NEW t \in Tiers, TemplateFails(t) PROVE WorkshopInv'
  <2> DEFINE loaded == [work EXCEPT !.loads = [work.loads EXCEPT ![t] = work.loads[t] - 1]]
             emptied == [loaded EXCEPT !.template = Absent]
  <2>1. [work.loads EXCEPT ![t] = work.loads[t] - 1] \in [Tiers -> Nat]
    <3>1. work.loads \in [Tiers -> Nat]
      BY <1>0 DEF Works
    <3>2. work.loads[t] > 0
      BY <1>13 DEF TemplateFails
    <3>3. work.loads[t] \in Nat
      BY <3>1
    <3>4. work.loads[t] - 1 \in Nat
      BY <3>2, <3>3
    <3> QED
      BY <3>1, <3>4
  <2>2. loaded \in Works
    BY <1>0, <2>1 DEF Works
  <2>3. emptied = [work EXCEPT !.loads[t] = work.loads[t] - 1, !.template = Absent]
    BY <1>0 DEF Works
  <2> HIDE DEF loaded
  <2>4. emptied \in Works /\ emptied.template = Absent
    BY <2>2 DEF Works
  <2> HIDE DEF emptied
  <2> QED
    BY <1>1, <1>13, <2>3, <2>4 DEF TemplateFails, Animated
<1> QED
  BY <1>3, <1>4, <1>5, <1>6, <1>7, <1>8, <1>9, <1>10, <1>11, <1>12, <1>13

\* The choice of the runtime spawns an animation on a record of consent.
LEMMA ChoiceKeepsInv ==
  ASSUME WorkshopInv, CloseChoice \/ ConfirmLive
  PROVE  WorkshopInv'
<1>0. work.phase = "awaiting_runtime_choice" /\ modal' = modal
  BY DEF CloseChoice, ConfirmLive, Choosing
<1>1. spawn = Unmounted /\ spawn.fired = FALSE /\ calls.here = 0
  <2>1. Animated(work) = FALSE
    BY <1>0 DEF Animated
  <2>2. spawn = Unmounted
    BY <2>1 DEF WorkshopInv, AnimationInv
  <2>3. spawn.fired = FALSE
    BY <2>2 DEF Unmounted
  <2> QED
    BY <2>2, <2>3 DEF WorkshopInv, AnimationInv
<1>2. PICK consent \in BOOLEAN :
        /\ Spawn(consent) /\ byok' \in Byoks
        /\ byok'.mode = "live" => consent
        /\ byok'.runs = byok.runs /\ byok'.storedRuns = byok.storedRuns
        /\ KeyInOnePlace'
  <2>1. CASE CloseChoice
    <3>1. byok' = [byok EXCEPT !.mode = "theatrical"] /\ Spawn(FALSE)
      BY <2>1 DEF CloseChoice, Theatrical
    <3> QED
      BY <3>1 DEF WorkshopInv, WorkshopTypes, Byoks, Modes, KeyInOnePlace
  <2>2. CASE ConfirmLive
    <3>1. byok' = [byok EXCEPT !.mode = "live", !.key = choice.draft, !.storedKey = choice.draft]
          /\ choice.draft \in ApiKeys /\ Spawn(TRUE)
      BY <2>2 DEF ConfirmLive
    <3>2. byok' \in Byoks /\ byok'.runs = byok.runs /\ byok'.storedRuns = byok.storedRuns
          /\ byok'.key = choice.draft /\ byok'.storedKey = choice.draft
      BY <3>1 DEF WorkshopInv, WorkshopTypes, Byoks, Modes
    <3>3. KeyInOnePlace'
      BY <3>1, <3>2, WorkshopAssumption DEF KeyInOnePlace
    <3> QED
      BY <3>1, <3>2, <3>3
  <2> QED
    BY <2>1, <2>2
<1>3. work' = [work EXCEPT !.phase = "spawning"]
  BY <1>2 DEF Spawn
<1>4. work' \in Works /\ work'.phase = "spawning" /\ work'.template = work.template
  BY <1>3 DEF WorkshopInv, WorkshopTypes, Works, Phases
<1>5. calls' \in Calls /\ calls'.all = calls.all /\ calls'.here = 0 /\ calls'.chosen = consent
  BY <1>2 DEF Spawn, WorkshopInv, WorkshopTypes, Calls
<1>6. /\ spawn' \in Spawns /\ spawn'.mounted = Animated(work') /\ spawn'.fired = FALSE
      /\ ~spawn'.mounted => spawn' = Unmounted
  <2>1. CASE work.template # Absent
    <3>1. spawn' = [Unmounted EXCEPT !.mounted = TRUE]
      BY <1>2, <2>1 DEF Spawn
    <3> QED
      BY <1>4, <2>1, <3>1 DEF Unmounted, Spawns, Animated
  <2>2. CASE work.template = Absent
    <3>1. spawn' = Unmounted
      BY <1>1, <1>2, <2>2 DEF Spawn
    <3> QED
      BY <1>4, <2>2, <3>1 DEF Unmounted, Spawns, Animated
  <2> QED
    BY <2>1, <2>2
<1>7. WorkshopTypes'
  BY <1>0, <1>2, <1>4, <1>5, <1>6 DEF WorkshopInv, WorkshopTypes
<1>8. AnimationInv' /\ ConsentInv'
  BY <1>2, <1>5, <1>6 DEF AnimationInv, ConsentInv
<1>9. RunsAccountForCalls' /\ VendorLineup'
  BY <1>0, <1>2, <1>5 DEF WorkshopInv, RunsAccountForCalls, VendorLineup
<1> QED
  BY <1>2, <1>7, <1>8, <1>9 DEF WorkshopInv

\* The effect takes a run off and makes the call in one go, and never twice for one animation.
LEMMA EffectKeepsInv ==
  ASSUME WorkshopInv, LiveEffect
  PROVE  WorkshopInv'
<1>0. work' = work /\ modal' = modal /\ spawn.mounted = TRUE
  BY DEF LiveEffect, EffectDue, WorkshopInv, WorkshopTypes, Spawns
<1> DEFINE seen == [spawn EXCEPT !.seen = Dependencies]
           cleaned == [seen EXCEPT !.answer = IF spawn.answer = "awaited" THEN "cancelled"
                                              ELSE spawn.answer]
<1>1. Dependencies \in Modes \X (ApiKeys \union {Absent}) \X (0 .. RUNS)
  BY DEF WorkshopInv, WorkshopTypes, Byoks, Dependencies
<1>2. seen \in Spawns /\ seen.mounted = TRUE /\ seen.fired = spawn.fired
  BY <1>0, <1>1 DEF WorkshopInv, WorkshopTypes, Spawns
<1>3. cleaned = [spawn EXCEPT !.seen = Dependencies,
                              !.answer = IF @ = "awaited" THEN "cancelled" ELSE @]
  BY DEF WorkshopInv, WorkshopTypes, Spawns
<1>4. spawn.answer \in {"none", "awaited", "cancelled", "shown"}
  BY DEF WorkshopInv, WorkshopTypes, Spawns
<1> HIDE DEF seen
<1>5. cleaned \in Spawns /\ cleaned.mounted = TRUE /\ cleaned.fired = spawn.fired
  BY <1>2, <1>4 DEF Spawns
<1> HIDE DEF cleaned
<1>6. CASE MayInvoke
  <2>1. /\ byok' = DecrementLiveRuns(byok)
        /\ spawn' = [cleaned EXCEPT !.fired = TRUE, !.answer = "awaited"]
        /\ calls' = [calls EXCEPT !.all = calls.all + 1, !.here = calls.here + 1]
    BY <1>3, <1>6 DEF LiveEffect
  <2>2. byok.mode = "live" /\ byok.key # Absent /\ byok.runs > 0 /\ spawn.fired = FALSE
    BY <1>6 DEF MayInvoke, WorkshopInv, WorkshopTypes, Spawns
  <2>3. spawn' \in Spawns /\ spawn'.mounted = TRUE /\ spawn'.fired = TRUE
    BY <1>5, <2>1 DEF Spawns
  <2>4. calls' \in Calls /\ calls'.all = calls.all + 1 /\ calls'.here = 1
        /\ calls'.chosen = calls.chosen
    <3> DEFINE made == [calls EXCEPT !.all = calls.all + 1]
    <3>1. calls \in Calls /\ calls.here = 0
      BY <2>2 DEF WorkshopInv, WorkshopTypes, AnimationInv
    <3>2. made \in Calls /\ made.all = calls.all + 1 /\ made.here = 0 /\ made.chosen = calls.chosen
      BY <3>1 DEF Calls
    <3>3. calls' = [made EXCEPT !.here = calls.here + 1]
      BY <2>1, Zenon
    <3>4. calls.here + 1 = 1 /\ 1 \in Nat
      BY <3>1
    <3> HIDE DEF made
    <3> QED
      BY <3>2, <3>3, <3>4 DEF Calls
  <2>5. /\ byok' \in Byoks /\ byok'.mode = byok.mode /\ byok'.key = byok.key
        /\ byok'.storedKey = byok.storedKey
        /\ byok'.runs = byok.runs - 1 /\ byok'.storedRuns = byok.runs - 1
    <3> DEFINE left == byok.runs - 1
               spent == [byok EXCEPT !.runs = left]
    <3>1. byok \in Byoks
      BY DEF WorkshopInv, WorkshopTypes
    <3>2. left \in 0 .. RUNS
      BY <2>2, <3>1, WorkshopAssumption DEF Byoks
    <3>3. byok' = [byok EXCEPT !.runs = left, !.storedRuns = left]
      BY <2>1 DEF DecrementLiveRuns
    <3> HIDE DEF left
    <3>4. byok' = [spent EXCEPT !.storedRuns = left]
      BY <3>3, Zenon
    <3>5. /\ spent \in Byoks /\ spent.mode = byok.mode /\ spent.key = byok.key
          /\ spent.storedKey = byok.storedKey /\ spent.runs = left
      BY <3>1, <3>2 DEF Byoks
    <3> HIDE DEF spent
    <3>6. /\ byok' \in Byoks /\ byok'.mode = byok.mode /\ byok'.key = byok.key
          /\ byok'.storedKey = byok.storedKey /\ byok'.runs = left /\ byok'.storedRuns = left
      BY <3>2, <3>4, <3>5 DEF Byoks
    <3> QED
      BY <3>6 DEF left
  <2>6. WorkshopTypes'
    BY <1>0, <2>3, <2>4, <2>5 DEF WorkshopInv, WorkshopTypes
  <2>7. AnimationInv' /\ ConsentInv'
    BY <1>0, <2>3, <2>4, <2>5 DEF WorkshopInv, AnimationInv, ConsentInv, Animated
  <2>8. RunsAccountForCalls'
    BY <2>4, <2>5, WorkshopAssumption
       DEF WorkshopInv, WorkshopTypes, Byoks, Calls, RunsAccountForCalls
  <2>9. KeyInOnePlace' /\ VendorLineup'
    BY <1>0, <2>5 DEF WorkshopInv, KeyInOnePlace, VendorLineup
  <2> QED
    BY <2>6, <2>7, <2>8, <2>9 DEF WorkshopInv
<1>7. CASE ~MayInvoke
  <2>1. spawn' = cleaned /\ byok' = byok /\ calls' = calls
    BY <1>3, <1>7 DEF LiveEffect
  <2> QED
    BY <1>0, <1>5, <2>1
       DEF WorkshopInv, WorkshopTypes, AnimationInv, ConsentInv, Animated,
           RunsAccountForCalls, KeyInOnePlace, VendorLineup
<1> QED
  BY <1>6, <1>7

LEMMA WorkshopInvStep == WorkshopInv /\ [WorkshopNext]_workshopVars => WorkshopInv'
<1> SUFFICES ASSUME WorkshopInv, [WorkshopNext]_workshopVars PROVE WorkshopInv'
  OBVIOUS
<1>0. modal \in Modals /\ VendorLineup
  BY DEF WorkshopInv, WorkshopTypes
<1>1. CASE \/ OpenWorkshop \/ CloseWorkshop \/ SubmitPrompt \/ ConfirmModal
           \/ Accept \/ Revise \/ LeaveRevising \/ AnimationEnds
           \/ \E t \in Tiers : Classify(t) \/ TemplateLoads(t) \/ TemplateFails(t)
  BY <1>1, DialogueKeepsInv
<1>2. ASSUME UNCHANGED <<work, byok, modal, spawn, calls>> PROVE WorkshopInv'
  BY <1>0, <1>2, ModalStep DEF VendorLineup
<1>3. CASE WireBridge
  BY <1>2, <1>3 DEF WireBridge
<1>4. ASSUME NEW m \in {"theatrical", "live"}, ChooseMode(m) PROVE WorkshopInv'
  BY <1>2, <1>4 DEF ChooseMode
<1>5. ASSUME NEW k \in ApiKeys \union {Absent, "malformed"}, TypeKey(k) PROVE WorkshopInv'
  BY <1>2, <1>5 DEF TypeKey
<1>6. ASSUME NEW v \in Vendors, VendorClick(v) PROVE WorkshopInv'
  <2>1. UNCHANGED <<work, byok, spawn, calls>>
    BY <1>6 DEF VendorClick
  <2>2. modal' \in Modals /\ VendorLineup'
    BY <1>6, ModalOperations DEF VendorClick, VendorLineup
  <2> QED
    BY <2>1, <2>2, ModalStep
<1>7. CASE ToggleMulti
  <2>1. UNCHANGED <<work, byok, spawn, calls>>
    BY <1>7 DEF ToggleMulti
  <2>2. CASE modal.multi
    BY <1>7, <2>1, <2>2, ModalOperations, ModalStep DEF ToggleMulti, VendorLineup
  <2>3. CASE ~modal.multi
    <3>1. modal' = [modal EXCEPT !.multi = TRUE]
      BY <1>7, <2>3 DEF ToggleMulti
    <3>2. modal' \in Modals /\ VendorLineup'
      BY <1>0, <3>1 DEF Modals, VendorLineup
    <3> QED
      BY <2>1, <3>2, ModalStep
  <2> QED
    BY <2>2, <2>3
<1>8. CASE CancelModal
  <2>1. UNCHANGED <<work, byok, spawn, calls>> /\ modal' = [modal EXCEPT !.open = FALSE]
    BY <1>8 DEF CancelModal
  <2>2. modal' \in Modals /\ VendorLineup'
    BY <1>0, <2>1 DEF Modals, VendorLineup
  <2> QED
    BY <2>1, <2>2, ModalStep
<1>9. CASE CloseChoice \/ ConfirmLive
  BY <1>9, ChoiceKeepsInv
<1>10. CASE ClearKey
  <2>1. UNCHANGED <<work, modal, spawn, calls>> /\ byok' = ClearApiKey(byok)
    BY <1>10 DEF ClearKey
  <2>2. /\ byok' \in Byoks /\ byok'.mode = "theatrical" /\ byok'.key = Absent
        /\ byok'.storedKey = Absent /\ byok'.runs = byok.runs
        /\ byok'.storedRuns = byok.storedRuns
    BY <2>1 DEF ClearApiKey, WorkshopInv, WorkshopTypes, Byoks, Modes
  <2> QED
    BY <2>1, <2>2 DEF WorkshopInv, WorkshopTypes, AnimationInv, ConsentInv, Animated,
                      RunsAccountForCalls, KeyInOnePlace, VendorLineup
<1>11. CASE LiveEffect
  BY <1>11, EffectKeepsInv
<1>12. CASE LiveAnswer
  <2>1. UNCHANGED <<work, byok, modal, calls>>
        /\ spawn' = [spawn EXCEPT !.answer = IF @ = "awaited" THEN "shown" ELSE "none"]
    BY <1>12 DEF LiveAnswer
  <2>2. spawn' \in Spawns /\ spawn'.mounted = spawn.mounted /\ spawn'.fired = spawn.fired
    BY <2>1 DEF WorkshopInv, WorkshopTypes, Spawns
  <2>3. spawn.mounted
    BY <1>12 DEF LiveAnswer, WorkshopInv, AnimationInv, Unmounted
  <2> QED
    BY <2>1, <2>2, <2>3 DEF WorkshopInv, WorkshopTypes, AnimationInv, ConsentInv, Animated,
                            RunsAccountForCalls, KeyInOnePlace, VendorLineup
<1>13. CASE Reload
  <2>1. work' \in Works /\ Animated(work') = FALSE /\ modal' \in Modals /\ VendorLineup'
    BY <1>13, WorkshopAssumption
       DEF Reload, ClosedWork, Works, Phases, Animated, Modals, VendorLineup
  <2>2. spawn' = Unmounted /\ spawn' \in Spawns /\ spawn'.mounted = FALSE /\ spawn'.fired = FALSE
    BY <1>13 DEF Reload, Unmounted, Spawns
  <2>3. calls' = [calls EXCEPT !.here = 0]
    BY <1>13 DEF Reload
  <2>4. calls' \in Calls /\ calls'.all = calls.all /\ calls'.here = 0
    BY <2>3 DEF WorkshopInv, WorkshopTypes, Calls
  <2>5. byok' = FromSessionStorage
    BY <1>13 DEF Reload
  <2>6. /\ byok' \in Byoks /\ byok'.key = byok.storedKey /\ byok'.storedKey = byok.storedKey
        /\ byok'.runs = byok.storedRuns /\ byok'.storedRuns = byok.storedRuns
        /\ byok'.mode = "live" => byok.storedKey # Absent
    BY <2>5 DEF FromSessionStorage, WorkshopInv, WorkshopTypes, Byoks, Modes
  <2>7. WorkshopTypes' /\ ConsentInv'
    BY <2>1, <2>2, <2>4, <2>6 DEF WorkshopTypes, ConsentInv
  <2>9. AnimationInv'
    BY <2>1, <2>2, <2>4 DEF AnimationInv
  <2>8. RunsAccountForCalls' /\ KeyInOnePlace'
    BY <2>4, <2>6 DEF WorkshopInv, RunsAccountForCalls, KeyInOnePlace
  <2> QED
    BY <2>1, <2>7, <2>8, <2>9 DEF WorkshopInv
<1>14. CASE UNCHANGED workshopVars
  BY <1>2, <1>14 DEF workshopVars
<1> QED
  BY <1>1, <1>3, <1>4, <1>5, <1>6, <1>7, <1>8, <1>9, <1>10, <1>11, <1>12, <1>13, <1>14
     DEF WorkshopNext

\* The stores of the workshop keep their types, through every landing of a late template load
\* and every reload (ApolloBuilderWorkshopDialogue, apolloBuilderDialogueStore).
THEOREM WorkshopTyped == WorkshopSpec => []WorkshopTypeOK
<1>1. WorkshopInv => WorkshopTypeOK
  BY DEF WorkshopInv, WorkshopTypes, AnimationInv, WorkshopTypeOK, Works, Byoks, Modes, Modals
<1> QED
  BY <1>1, WorkshopInvInit, WorkshopInvStep, PTL DEF WorkshopSpec

\* A run of the user's key is spent once for each animation that made a call, key, mode and
\* lineup stay in step, and a ware is paid for at its price, for any number of runs, vendors,
\* tiers, keys and wares (apolloBuilderDialogueStore, TheatricalSpawnAnimation,
\* builderModelSelectionStore, ShopModal).
THEOREM SpendingIsCounted == WorkshopSpec /\ ShopSpec => []SpendingAddsUp
<1>1. WorkshopInv /\ WorkshopTypeOK /\ PaidForWhatWasBought => SpendingAddsUp
  BY DEF WorkshopInv, AnimationInv, SpendingAddsUp, OneCallPerSpawn
<1> QED
  BY <1>1, WorkshopInvInit, WorkshopInvStep, WorkshopTyped, PurseAlways, PTL DEF WorkshopSpec

\* Money is spent only on a live call that was chosen, and a reload keeps the world
\* (ApiKeyModal's handleClose and handleConfirm, theme_runtime).
THEOREM NothingBehindTheUser == WorkshopSpec /\ WorldsSpec => OnlyAsChosen
<1>1. WorkshopInv /\ [WorkshopNext]_workshopVars
        => [calls'.all # calls.all => calls.chosen]_workshopVars
  <2> SUFFICES ASSUME WorkshopInv, WorkshopNext, calls'.all # calls.all
               PROVE  calls.chosen
    OBVIOUS
  <2>1. calls \in Calls
    BY DEF WorkshopInv, WorkshopTypes
  <2>2. [calls EXCEPT !.here = 0].all = calls.all
    BY <2>1 DEF Calls
  <2>3. ASSUME NEW w, Rendered(w) PROVE calls'.all = calls.all
    BY <2>2, <2>3 DEF Rendered
  <2>4. ASSUME NEW consent \in BOOLEAN, Spawn(consent) PROVE calls'.all = calls.all
    BY <2>1, <2>4 DEF Spawn, Calls
  <2>5. LiveEffect /\ MayInvoke
    BY <2>2, <2>3, <2>4
       DEF WorkshopNext, WireBridge, OpenWorkshop, CloseWorkshop, SubmitPrompt, Classify,
           TemplateLoads, TemplateFails, VendorClick, ToggleMulti, CancelModal, ConfirmModal,
           Accept, Revise, LeaveRevising, ChooseMode, TypeKey, CloseChoice, ConfirmLive,
           ClearKey, LiveEffect, LiveAnswer, AnimationEnds, Reload
  <2> QED
    BY <2>5 DEF LiveEffect, EffectDue, MayInvoke, WorkshopInv, ConsentInv
<1>2. WorkshopSpec => LiveCallWasChosen
  BY <1>1, WorkshopInvInit, WorkshopInvStep, PTL DEF WorkshopSpec, LiveCallWasChosen
<1> QED
  BY <1>2, ReloadKeepsWorld DEF OnlyAsChosen

-----------------------------------------------------------------------------
(* The streamed answers of the chat.                                       *)

ChatMessages == [sess : Sessions \union {None}, text : Seq(Nat), streaming : BOOLEAN]
Buffers == [Sessions -> Seq(Nat)]
Chats == [msgs : Seq(ChatMessages), stored : Seq(ChatMessages), buffer : Buffers,
          active : Sessions \union {None}]
Streams == [phase : {"none", "minting", "connecting", "open", "waiting", "over"},
            closed : BOOLEAN, retry : Nat, last : Nat, script : Seq(Kinds)]

ChatTypes ==
  /\ chat \in Chats /\ streams \in [Sessions -> Streams]
  /\ scene \in [handle : Sessions \union {None}, creating : SUBSET Sessions,
                cancelling : Sessions \union {None}]
  /\ faults \in [drops : Nat, remounts : Nat, commands : Nat]

\* Only sessions stream, and only into the last of their messages.
LastStreams(ms) ==
  /\ \A i \in DOMAIN ms : ms[i].streaming => ms[i].sess \in Sessions
  /\ \A i, j \in DOMAIN ms : i < j /\ ms[i].sess = ms[j].sess => ~ms[i].streaming

\* Messages and buffers whose texts are in order.
Readable(ms, buf) ==
  /\ ms \in Seq(ChatMessages) /\ buf \in Buffers /\ LastStreams(ms)
  /\ \A s \in Sessions : InOrder(ms, buf[s], s)

\* The stored messages are those on the screen, without what was typed since.
PrefixOf(t, u) == \A a \in DOMAIN t : a \in DOMAIN u /\ t[a] = u[a]
SavedAlike(c) ==
  /\ Len(c.stored) = Len(c.msgs)
  /\ \A i \in DOMAIN c.msgs :
       /\ c.stored[i].sess = c.msgs[i].sess /\ c.stored[i].streaming = c.msgs[i].streaming
       /\ PrefixOf(c.stored[i].text, c.msgs[i].text)

GoodChat(c) == c \in Chats /\ Readable(c.msgs, c.buffer) /\ SavedAlike(c)

Held(c, s) == Read(c.msgs, c.buffer[s], s)
Silent(ms, s) == \A i \in DOMAIN ms : ms[i].sess = s => ~ms[i].streaming
Quiet(c, s) == Silent(c.msgs, s) /\ c.buffer[s] = <<>>

\* What is read later is what was read before without some of its beginning.
Trims(new, old) == new \subseteq old /\ \A a \in new, b \in old : a <= b => b \in new
Follows(c, d) ==
  GoodChat(d) /\ \A s \in Sessions : Trims(Held(d, s), Held(c, s)) /\ (Quiet(c, s) => Quiet(d, s))

Deltas(st) == {n \in 1 .. st.last : st.script[n] = "delta"}

\* A session reads of the deltas it was sent the last ones, unless the scene was built again,
\* and a session that is done is quiet and its stream is over.
ReadsItsDeltas(s) ==
  /\ Held(chat, s) \subseteq Deltas(streams[s])
  /\ faults.remounts = 0 => Trims(Held(chat, s), Deltas(streams[s]))
DoneIsOver(s) ==
  streams[s].last > 0 /\ streams[s].script[streams[s].last] = "done"
    => streams[s].phase = "over" /\ Quiet(chat, s)
StreamStands(s) ==
  /\ streams[s].last <= Len(streams[s].script)
  /\ streams[s].phase = "none" => streams[s] = NoStream
  /\ s \in scene.creating => streams[s].phase = "none"
  /\ scene.handle = s => streams[s].phase # "none"

ChatInv ==
  /\ ChatTypes /\ GoodChat(chat)
  /\ \A s \in Sessions : StreamStands(s) /\ ReadsItsDeltas(s) /\ DoneIsOver(s)


\* The cap drops the beginning of what is read.
LEMMA CappedReadable ==
  ASSUME NEW ms, NEW buf, Readable(ms, buf)
  PROVE  /\ Readable(Capped(ms), buf)
         /\ \A s \in Sessions :
              /\ Trims(Read(Capped(ms), buf[s], s), Read(ms, buf[s], s))
              /\ Silent(ms, s) => Silent(Capped(ms), s)
<1> DEFINE k == IF Len(ms) <= MESSAGES_CAP THEN 0 ELSE Len(ms) - MESSAGES_CAP
           cs == Capped(ms)
<1>1. ms \in Seq(ChatMessages) /\ buf \in Buffers /\ k \in Nat /\ k <= Len(ms)
  BY ChatAssumption DEF Readable
<1>2. /\ cs \in Seq(ChatMessages) /\ Len(cs) = Len(ms) - k
      /\ \A i \in DOMAIN cs : i + k \in DOMAIN ms /\ cs[i] = ms[i + k]
  BY <1>1, ChatAssumption DEF Capped
<1>3. ASSUME NEW j \in DOMAIN ms PROVE j <= k \/ (j - k \in DOMAIN cs /\ cs[j - k] = ms[j])
  <2> SUFFICES ASSUME ~(j <= k) PROVE j - k \in DOMAIN cs /\ cs[j - k] = ms[j]
    OBVIOUS
  <2> HIDE DEF k, cs
  <2>1. j \in Nat /\ k \in Nat /\ j <= Len(ms) /\ Len(cs) = Len(ms) - k /\ Len(ms) \in Nat
    BY <1>1, <1>2
  <2>2. j - k \in 1 .. Len(cs) /\ (j - k) + k = j
    BY <2>1
  <2> QED
    BY <1>2, <2>2
<1> HIDE DEF k, cs
<1>4. LastStreams(cs)
  BY <1>1, <1>2 DEF LastStreams, Readable
<1>5. ASSUME NEW s \in Sessions
      PROVE  /\ InOrder(cs, buf[s], s) /\ Trims(Read(cs, buf[s], s), Read(ms, buf[s], s))
             /\ Silent(ms, s) => Silent(cs, s)
  <2>1. InOrder(ms, buf[s], s)
    BY DEF Readable
  <2>2. InOrder(cs, buf[s], s)
    <3>1. \A i \in DOMAIN cs : cs[i].sess = s => Ascends(cs[i].text) /\ Before(cs[i].text, buf[s])
      BY <1>2, <2>1 DEF InOrder
    <3>2. ASSUME NEW i \in DOMAIN cs, NEW j \in DOMAIN cs, i < j, cs[i].sess = s, cs[j].sess = s
          PROVE  Before(cs[i].text, cs[j].text)
      <4>1. i \in Nat /\ j \in Nat /\ i + k < j + k
        BY <1>1, <1>2, <3>2
      <4>2. i + k \in DOMAIN ms /\ j + k \in DOMAIN ms /\ cs[i] = ms[i + k] /\ cs[j] = ms[j + k]
        BY <1>2
      <4> QED
        BY <2>1, <3>2, <4>1, <4>2 DEF InOrder
    <3> QED
      BY <2>1, <3>1, <3>2 DEF InOrder
  <2>3. Silent(ms, s) => Silent(cs, s)
    BY <1>2 DEF Silent
  <2>4. Read(cs, buf[s], s) \subseteq Read(ms, buf[s], s)
    BY <1>2 DEF Read, ToSet
  <2>5. ASSUME NEW a \in Read(cs, buf[s], s), NEW b \in Read(ms, buf[s], s), a <= b
        PROVE  b \in Read(cs, buf[s], s)
    <3>1. CASE b \in ToSet(buf[s])
      BY <3>1 DEF Read
    <3>2. CASE \E j \in DOMAIN ms : ms[j].sess = s /\ b \in ToSet(ms[j].text)
      <4>1. PICK j \in DOMAIN ms : ms[j].sess = s /\ b \in ToSet(ms[j].text)
        BY <3>2
      <4>2. CASE j - k \in DOMAIN cs /\ cs[j - k] = ms[j]
        BY <4>1, <4>2 DEF Read
      <4>3. CASE j <= k
        <5>1. PICK y \in DOMAIN ms[j].text : b = ms[j].text[y]
          BY <4>1 DEF ToSet
        <5>0. ms[j] \in ChatMessages
          BY <1>1, <4>1
        <5>2. ms[j].text \in Seq(Nat) /\ b \in Nat
          BY <5>0, <5>1 DEF ChatMessages
        <5>3. CASE a \in ToSet(buf[s])
          <6>1. PICK x \in DOMAIN buf[s] : a = buf[s][x]
            BY <5>3 DEF ToSet
          <6>2. b < a /\ a \in Nat
            BY <1>1, <2>1, <4>1, <5>1, <6>1 DEF InOrder, Before, Buffers
          <6> QED
            BY <2>5, <5>2, <6>2
        <5>4. CASE \E i \in DOMAIN cs : cs[i].sess = s /\ a \in ToSet(cs[i].text)
          <6>1. PICK i \in DOMAIN cs : cs[i].sess = s /\ a \in ToSet(cs[i].text)
            BY <5>4
          <6>2. PICK x \in DOMAIN cs[i].text : a = cs[i].text[x]
            BY <6>1 DEF ToSet
          <6>3. i + k \in DOMAIN ms /\ cs[i] = ms[i + k] /\ j < i + k
            BY <1>1, <1>2, <4>3, <6>1
          <6>4. Before(ms[j].text, ms[i + k].text)
            BY <2>1, <4>1, <6>1, <6>3 DEF InOrder
          <6>5. cs[i] \in ChatMessages
            BY <1>2
          <6>6. a \in Nat
            BY <6>2, <6>5 DEF ChatMessages
          <6>7. b < a
            BY <5>1, <6>2, <6>3, <6>4 DEF Before
          <6> QED
            BY <2>5, <5>2, <6>6, <6>7
        <5> QED
          BY <2>5, <5>3, <5>4 DEF Read
      <4> QED
        BY <1>3, <4>1, <4>2, <4>3
    <3> QED
      BY <2>5, <3>1, <3>2 DEF Read
  <2> QED
    BY <2>2, <2>3, <2>4, <2>5 DEF Trims
<1> QED
  BY <1>1, <1>2, <1>4, <1>5 DEF Readable, cs

\* A message with no text of its own, or with the text that was buffered, keeps the order
\* and what is read.
LEMMA AppendedReadable ==
  ASSUME NEW ms, NEW buf, Readable(ms, buf), NEW m \in ChatMessages, NEW s \in Sessions \union {None},
         m.sess = s, Silent(ms, s), m.streaming => s \in Sessions,
         NEW new \in Buffers, \A r \in Sessions : r # s => new[r] = buf[r],
         s \in Sessions => \/ m.text = <<>> /\ new[s] = buf[s]
                           \/ m.text = buf[s] /\ new[s] = <<>>
  PROVE  /\ Readable(Append(ms, m), new)
         /\ \A r \in Sessions : /\ Read(Append(ms, m), new[r], r) = Read(ms, buf[r], r)
                                /\ r # s => (Silent(ms, r) => Silent(Append(ms, m), r))
<1> DEFINE as == Append(ms, m)
<1>1. ms \in Seq(ChatMessages) /\ buf \in Buffers
  BY DEF Readable
<1>2. /\ as \in Seq(ChatMessages) /\ Len(as) = Len(ms) + 1 /\ as[Len(ms) + 1] = m
      /\ DOMAIN ms \subseteq DOMAIN as /\ DOMAIN as = DOMAIN ms \union {Len(ms) + 1}
      /\ \A i \in DOMAIN ms : as[i] = ms[i] /\ i < Len(ms) + 1
  BY <1>1
<1> HIDE DEF as
<1>3. LastStreams(as)
  <2>1. \A i \in DOMAIN as : as[i].streaming => as[i].sess \in Sessions
    BY <1>2 DEF Readable, LastStreams
  <2>2. ASSUME NEW i \in DOMAIN as, NEW j \in DOMAIN as, i < j, as[i].sess = as[j].sess
        PROVE  ~as[i].streaming
    <3>1. i \in DOMAIN ms
      BY <1>1, <1>2, <2>2
    <3>2. CASE j \in DOMAIN ms
      BY <1>2, <2>2, <3>1, <3>2 DEF Readable, LastStreams
    <3>3. CASE j = Len(ms) + 1
      BY <1>2, <2>2, <3>1, <3>3 DEF Silent
    <3> QED
      BY <1>2, <3>2, <3>3
  <2> QED
    BY <2>1, <2>2 DEF LastStreams
<1>4. ASSUME NEW r \in Sessions
      PROVE  InOrder(as, new[r], r) /\ Read(as, new[r], r) = Read(ms, buf[r], r)
  <2>1. InOrder(ms, buf[r], r) /\ buf[r] \in Seq(Nat) /\ new[r] \in Seq(Nat)
    BY <1>1 DEF Readable, Buffers
  <2>2. CASE r # s
    <3>1. \A i \in DOMAIN as : as[i].sess = r => i \in DOMAIN ms
      BY <1>2, <2>2
    <3>2. new[r] = buf[r]
      BY <2>2
    <3>3. InOrder(as, new[r], r)
      BY <1>2, <2>1, <3>1, <3>2 DEF InOrder
    <3>5. \A x : x \in Read(as, new[r], r) <=> x \in Read(ms, buf[r], r)
      <4>1. ASSUME NEW x
            PROVE  (\E i \in DOMAIN as : as[i].sess = r /\ x \in ToSet(as[i].text))
                     <=> (\E i \in DOMAIN ms : ms[i].sess = r /\ x \in ToSet(ms[i].text))
        BY <1>2, <3>1
      <4>2. ASSUME NEW x
            PROVE  /\ x \in Read(as, new[r], r) <=> x \in ToSet(new[r])
                        \/ \E i \in DOMAIN as : as[i].sess = r /\ x \in ToSet(as[i].text)
                   /\ x \in Read(ms, buf[r], r) <=> x \in ToSet(buf[r])
                        \/ \E i \in DOMAIN ms : ms[i].sess = r /\ x \in ToSet(ms[i].text)
        BY DEF Read
      <4> QED
        BY <3>2, <4>1, <4>2
    <3> QED
      BY <3>3, <3>5
  <2>3. CASE r = s /\ m.text = <<>> /\ new[s] = buf[s]
    <3>1. DOMAIN m.text = {} /\ ToSet(m.text) = {}
      BY <2>3 DEF ToSet
    <3>2. InOrder(as, new[r], r)
      <4>1. Ascends(m.text) /\ \A t : Before(m.text, t) /\ Before(t, m.text)
        BY <3>1 DEF Ascends, Before
      <4>2. \A i \in DOMAIN as : as[i] = m \/ (i \in DOMAIN ms /\ as[i] = ms[i])
        BY <1>2
      <4>3. \A i \in DOMAIN as : as[i].sess = r => Ascends(as[i].text) /\ Before(as[i].text, new[r])
        BY <2>1, <2>3, <4>1, <4>2 DEF InOrder
      <4>4. ASSUME NEW i \in DOMAIN as, NEW j \in DOMAIN as, i < j, as[i].sess = r, as[j].sess = r
            PROVE  Before(as[i].text, as[j].text)
        BY <2>1, <4>1, <4>2, <4>4 DEF InOrder
      <4> QED
        BY <2>1, <2>3, <4>3, <4>4 DEF InOrder
    <3>3. \A x : x \in Read(as, new[r], r) <=> x \in Read(ms, buf[r], r)
      <4>1. ASSUME NEW x
            PROVE  (\E i \in DOMAIN as : as[i].sess = r /\ x \in ToSet(as[i].text))
                     <=> (\E i \in DOMAIN ms : ms[i].sess = r /\ x \in ToSet(ms[i].text))
        BY <1>2, <3>1
      <4>2. ASSUME NEW x
            PROVE  /\ x \in Read(as, new[r], r) <=> x \in ToSet(new[r])
                        \/ \E i \in DOMAIN as : as[i].sess = r /\ x \in ToSet(as[i].text)
                   /\ x \in Read(ms, buf[r], r) <=> x \in ToSet(buf[r])
                        \/ \E i \in DOMAIN ms : ms[i].sess = r /\ x \in ToSet(ms[i].text)
        BY DEF Read
      <4> QED
        BY <2>3, <4>1, <4>2
    <3> QED
      BY <3>2, <3>3
  <2>4. CASE r = s /\ m.text = buf[s] /\ new[s] = <<>>
    <3>1. DOMAIN new[s] = {} /\ ToSet(new[s]) = {}
      BY <2>4 DEF ToSet
    <3>2. InOrder(as, new[r], r)
      <4>1. Ascends(new[r]) /\ \A i \in DOMAIN as : Before(as[i].text, new[r])
        BY <2>4, <3>1 DEF Ascends, Before
      <4>2. \A i \in DOMAIN as : as[i].sess = r => Ascends(as[i].text)
        BY <1>2, <2>1, <2>4 DEF InOrder
      <4>3. ASSUME NEW i \in DOMAIN as, NEW j \in DOMAIN as, i < j, as[i].sess = r, as[j].sess = r
            PROVE  Before(as[i].text, as[j].text)
        <5>1. i \in DOMAIN ms
          BY <1>1, <1>2, <4>3
        <5> QED
          BY <1>2, <2>1, <2>4, <4>3, <5>1 DEF InOrder
      <4> QED
        BY <4>1, <4>2, <4>3 DEF InOrder
    <3>3. \A x : x \in Read(as, new[r], r) <=> x \in Read(ms, buf[r], r)
      <4>1. ASSUME NEW x
            PROVE  (\E i \in DOMAIN as : as[i].sess = r /\ x \in ToSet(as[i].text))
                     <=> (\E i \in DOMAIN ms : ms[i].sess = r /\ x \in ToSet(ms[i].text))
                         \/ x \in ToSet(buf[r])
        BY <1>2, <2>4
      <4>2. ASSUME NEW x
            PROVE  /\ x \in Read(as, new[r], r) <=> x \in ToSet(new[r])
                        \/ \E i \in DOMAIN as : as[i].sess = r /\ x \in ToSet(as[i].text)
                   /\ x \in Read(ms, buf[r], r) <=> x \in ToSet(buf[r])
                        \/ \E i \in DOMAIN ms : ms[i].sess = r /\ x \in ToSet(ms[i].text)
        BY DEF Read
      <4> QED
        BY <2>4, <3>1, <4>1, <4>2
    <3> QED
      BY <3>2, <3>3
  <2> QED
    BY <2>2, <2>3, <2>4
<1>5. \A r \in Sessions : r # s => (Silent(ms, r) => Silent(as, r))
  BY <1>2 DEF Silent
<1> QED
  BY <1>2, <1>3, <1>4, <1>5 DEF Readable, as

LEMMA JoinedAscends ==
  ASSUME NEW t \in Seq(Nat), NEW u \in Seq(Nat)
  PROVE  /\ t \o u \in Seq(Nat) /\ ToSet(t \o u) = ToSet(t) \union ToSet(u)
         /\ Ascends(t \o u) <=> Ascends(t) /\ Ascends(u) /\ Before(t, u)
<1> DEFINE w == t \o u
           l == Len(t)
<1>1. /\ w \in Seq(Nat) /\ l \in Nat
      /\ \A a \in DOMAIN t : a \in Nat /\ a <= l /\ a \in DOMAIN w /\ w[a] = t[a]
      /\ \A b \in DOMAIN u : b \in Nat /\ b > 0 /\ b + l \in DOMAIN w /\ w[b + l] = u[b]
      /\ \A c \in DOMAIN w : c \in Nat /\ (c \in DOMAIN t \/ (c > l /\ c - l \in DOMAIN u /\ w[c] = u[c - l]))
  <2>1. w \in Seq(Nat) /\ l \in Nat /\ Len(u) \in Nat /\ Len(w) = l + Len(u)
    OBVIOUS
  <2>2. DOMAIN t = 1 .. l /\ DOMAIN u = 1 .. Len(u) /\ DOMAIN w = 1 .. l + Len(u)
    BY <2>1
  <2>3. /\ \A a \in 1 .. l : w[a] = t[a]
        /\ \A c \in 1 .. l + Len(u) : c > l => w[c] = u[c - l]
    OBVIOUS
  <2> HIDE DEF w, l
  <2>4. \A b \in DOMAIN u : b + l \in DOMAIN w /\ w[b + l] = u[b]
    <3> SUFFICES ASSUME NEW b \in DOMAIN u PROVE b + l \in DOMAIN w /\ w[b + l] = u[b]
      OBVIOUS
    <3> DEFINE m == Len(u)
    <3>1. b \in Nat /\ b > 0 /\ b <= m /\ l \in Nat /\ m \in Nat
      BY <2>1, <2>2
    <3> HIDE DEF m
    <3>2. b + l \in 1 .. l + m /\ b + l > l /\ (b + l) - l = b
      BY <3>1
    <3> QED
      BY <2>2, <2>3, <3>2 DEF m
  <2>5. ASSUME NEW c \in DOMAIN w
        PROVE  c \in Nat /\ (c \in DOMAIN t \/ (c > l /\ c - l \in DOMAIN u /\ w[c] = u[c - l]))
    <3>1. c \in Nat /\ c > 0 /\ c <= l + Len(u)
      BY <2>1, <2>2
    <3>2. CASE c <= l
      BY <2>1, <2>2, <3>1, <3>2
    <3>3. CASE c > l
      <4>1. c - l \in 1 .. Len(u)
        BY <2>1, <3>1, <3>3
      <4> QED
        BY <2>2, <2>3, <3>1, <3>3, <4>1
    <3> QED
      BY <2>1, <3>1, <3>2, <3>3
  <2>6. \A a \in DOMAIN t : a \in Nat /\ a <= l /\ a \in DOMAIN w /\ w[a] = t[a]
    BY <2>1, <2>2, <2>3
  <2>7. \A b \in DOMAIN u : b \in Nat /\ b > 0
    BY <2>1, <2>2
  <2> QED
    BY <2>1, <2>4, <2>5, <2>6, <2>7
<1> HIDE DEF w, l
<1>2. ToSet(w) = ToSet(t) \union ToSet(u)
  <2>1. ASSUME NEW x \in ToSet(w) PROVE x \in ToSet(t) \union ToSet(u)
    BY <1>1 DEF ToSet
  <2>2. ASSUME NEW x \in ToSet(t) \union ToSet(u) PROVE x \in ToSet(w)
    BY <1>1 DEF ToSet
  <2> QED
    BY <2>1, <2>2
<1>3. ASSUME Ascends(w) PROVE Ascends(t) /\ Ascends(u) /\ Before(t, u)
  <2>1. Ascends(t)
    BY <1>1, <1>3 DEF Ascends
  <2>2. Ascends(u)
    BY <1>1, <1>3 DEF Ascends
  <2>3. \A a \in DOMAIN t, b \in DOMAIN u : a < b + l
    BY <1>1
  <2>4. Before(t, u)
    BY <1>1, <1>3, <2>3 DEF Ascends, Before
  <2> QED
    BY <2>1, <2>2, <2>4
<1>4. ASSUME Ascends(t), Ascends(u), Before(t, u) PROVE Ascends(w)
  <2> SUFFICES ASSUME NEW a \in DOMAIN w, NEW b \in DOMAIN w, a < b
               PROVE  w[a] < w[b]
    BY DEF Ascends
  <2>1. CASE b \in DOMAIN t
    <3>1. a \in DOMAIN t /\ w[a] = t[a] /\ w[b] = t[b]
      BY <1>1, <2>1
    <3> QED
      BY <1>4, <2>1, <3>1 DEF Ascends
  <2>2. CASE a \in DOMAIN t /\ b > l
    <3>1. w[a] = t[a] /\ b - l \in DOMAIN u /\ w[b] = u[b - l]
      <4>1. b \in Nat /\ l \in Nat /\ ~(b <= l)
        BY <1>1, <2>2
      <4>2. b \notin DOMAIN t
        BY <1>1, <4>1
      <4> QED
        BY <1>1, <2>2, <4>2
    <3> QED
      BY <1>4, <2>2, <3>1 DEF Before
  <2>3. CASE a > l /\ b > l
    <3>1. /\ a - l \in DOMAIN u /\ w[a] = u[a - l] /\ b - l \in DOMAIN u /\ w[b] = u[b - l]
          /\ a - l < b - l
      <4>1. a \in Nat /\ b \in Nat /\ l \in Nat /\ ~(a <= l) /\ ~(b <= l)
        BY <1>1, <2>3
      <4>2. a \notin DOMAIN t /\ b \notin DOMAIN t
        BY <1>1, <4>1
      <4>3. a - l < b - l
        BY <4>1
      <4> QED
        BY <1>1, <4>2, <4>3
    <3> QED
      BY <1>4, <3>1 DEF Ascends
  <2> QED
    BY <1>1, <2>1, <2>2, <2>3
<1> QED
  BY <1>1, <1>2, <1>3, <1>4 DEF w

LEMMA JoinedBefore ==
  ASSUME NEW t \in Seq(Nat), NEW u \in Seq(Nat), NEW v \in Seq(Nat)
  PROVE  /\ Before(t \o u, v) <=> Before(t, v) /\ Before(u, v)
         /\ Before(v, t \o u) <=> Before(v, t) /\ Before(v, u)
<1>1. /\ \A a \in DOMAIN t : a \in DOMAIN (t \o u) /\ (t \o u)[a] = t[a]
      /\ \A b \in DOMAIN u : b + Len(t) \in DOMAIN (t \o u) /\ (t \o u)[b + Len(t)] = u[b]
      /\ \A c \in DOMAIN (t \o u) :
           \/ c \in DOMAIN t
           \/ c - Len(t) \in DOMAIN u /\ (t \o u)[c] = u[c - Len(t)]
  OBVIOUS
<1> QED
  BY <1>1 DEF Before

\* A session whose streaming message takes the head of the buffer is read as before.
LEMMA MovedInOrder ==
  ASSUME NEW ms \in Seq(ChatMessages), NEW ns \in Seq(ChatMessages), Len(ns) = Len(ms),
         LastStreams(ms), NEW s \in Sessions,
         NEW u \in Seq(Nat), NEW v \in Seq(Nat), InOrder(ms, u \o v, s),
         Silent(ms, s) => u = <<>>,
         \A i \in DOMAIN ms : ns[i].sess = ms[i].sess,
         \A i \in DOMAIN ms : ms[i].sess = s =>
           ns[i].text = IF ms[i].streaming THEN ms[i].text \o u ELSE ms[i].text
  PROVE  InOrder(ns, v, s) /\ Read(ns, v, s) = Read(ms, u \o v, s)
<1> DEFINE t == u \o v
<1>1. t \in Seq(Nat) /\ DOMAIN ns = DOMAIN ms
      /\ \A i \in DOMAIN ms : ms[i].text \in Seq(Nat) /\ ns[i].text \in Seq(Nat)
  <2>1. \A i \in DOMAIN ms : ms[i] \in ChatMessages /\ ns[i] \in ChatMessages
    OBVIOUS
  <2> QED
    BY <2>1 DEF ChatMessages
<1>2. Ascends(u) /\ Ascends(v) /\ Before(u, v) /\ ToSet(t) = ToSet(u) \union ToSet(v)
  BY JoinedAscends DEF InOrder
<1>3. ASSUME NEW i \in DOMAIN ms, ms[i].sess = s
      PROVE  Ascends(ms[i].text) /\ Before(ms[i].text, u) /\ Before(ms[i].text, v)
  BY <1>1, <1>3, JoinedBefore DEF InOrder
<1>4. ASSUME NEW i \in DOMAIN ms, ms[i].sess = s
      PROVE  /\ Ascends(ns[i].text) /\ Before(ns[i].text, v)
             /\ ToSet(ns[i].text) = IF ms[i].streaming THEN ToSet(ms[i].text) \union ToSet(u)
                                                       ELSE ToSet(ms[i].text)
  <2>1. CASE ms[i].streaming
    <3>1. ns[i].text = ms[i].text \o u
      BY <1>4, <2>1
    <3> QED
      <4>1. ms[i].text \in Seq(Nat) /\ Ascends(ms[i].text) /\ Before(ms[i].text, u) /\ Before(ms[i].text, v)
        BY <1>1, <1>3, <1>4
      <4>2. /\ Ascends(ms[i].text \o u)
            /\ ToSet(ms[i].text \o u) = ToSet(ms[i].text) \union ToSet(u)
        BY <1>2, <4>1, JoinedAscends
      <4>3. Before(ms[i].text \o u, v)
        BY <1>2, <4>1, JoinedBefore
      <4> QED
        BY <2>1, <3>1, <4>2, <4>3
  <2>2. CASE ~ms[i].streaming
    BY <1>3, <1>4, <2>2
  <2> QED
    BY <2>1, <2>2
<1>5. ASSUME NEW i \in DOMAIN ms, NEW j \in DOMAIN ms, i < j, ms[i].sess = s, ms[j].sess = s
      PROVE  Before(ns[i].text, ns[j].text)
  <2>1. Before(ms[i].text, ms[j].text) /\ Before(ms[i].text, u) /\ ns[i].text = ms[i].text
    BY <1>3, <1>5 DEF InOrder, LastStreams
  <2>2. CASE ms[j].streaming
    <3>1. ns[j].text = ms[j].text \o u
      BY <1>5, <2>2
    <3> QED
      BY <1>1, <2>1, <3>1, JoinedBefore
  <2>3. CASE ~ms[j].streaming
    BY <1>5, <2>1, <2>3
  <2> QED
    BY <2>2, <2>3
<1>6. InOrder(ns, v, s)
  BY <1>1, <1>2, <1>4, <1>5 DEF InOrder
<1>7. ASSUME NEW x
      PROVE  x \in Read(ns, v, s) <=> x \in Read(ms, t, s)
  <2>1. /\ x \in Read(ns, v, s) <=>
             x \in ToSet(v) \/ \E i \in DOMAIN ms : ms[i].sess = s /\ x \in ToSet(ns[i].text)
        /\ x \in Read(ms, t, s) <=>
             x \in ToSet(t) \/ \E i \in DOMAIN ms : ms[i].sess = s /\ x \in ToSet(ms[i].text)
    BY <1>1 DEF Read
  <2>2. ASSUME x \in ToSet(u)
        PROVE  \E i \in DOMAIN ms : ms[i].sess = s /\ ms[i].streaming
    BY <2>2 DEF Silent, ToSet
  <2> QED
    BY <1>2, <1>4, <2>1, <2>2
<1> QED
  BY <1>6, <1>7

LEMMA OneTarget ==
  ASSUME NEW c, LastStreams(c.msgs), c.msgs \in Seq(ChatMessages), NEW i \in DOMAIN c.msgs
  PROVE  IsTarget(c, i) <=> c.msgs[i].streaming
<1>1. ASSUME c.msgs[i].streaming, NEW j \in StreamingAt(c, c.msgs[i].sess)
      PROVE  j <= i
  BY <1>1 DEF StreamingAt, LastStreams
<1> QED
  BY <1>1 DEF IsTarget

LEMMA SilentIs ==
  ASSUME NEW c, NEW s
  PROVE  StreamingAt(c, s) = {} <=> Silent(c.msgs, s)
BY DEF StreamingAt, Silent

\* Each streaming message takes the head of the buffer of its session.
Moves(ms, buf, ns, heads, new) ==
  /\ ns \in Seq(ChatMessages) /\ Len(ns) = Len(ms) /\ heads \in Buffers /\ new \in Buffers
  /\ \A s \in Sessions : buf[s] = heads[s] \o new[s] /\ (Silent(ms, s) => heads[s] = <<>>)
  /\ \A i \in DOMAIN ms : ns[i].sess = ms[i].sess /\ (ns[i].streaming => ms[i].streaming)
  /\ \A i \in DOMAIN ms : ms[i].sess \in Sessions =>
       ns[i].text = IF ms[i].streaming THEN ms[i].text \o heads[ms[i].sess] ELSE ms[i].text

LEMMA MovedReadable ==
  ASSUME NEW ms, NEW buf, Readable(ms, buf), NEW ns, NEW heads, NEW new, Moves(ms, buf, ns, heads, new)
  PROVE  /\ Readable(ns, new)
         /\ \A s \in Sessions : /\ Read(ns, new[s], s) = Read(ms, buf[s], s)
                                /\ Silent(ms, s) => Silent(ns, s)
<1>1. ms \in Seq(ChatMessages) /\ LastStreams(ms) /\ DOMAIN ns = DOMAIN ms
  BY DEF Readable, Moves
<1>2. LastStreams(ns)
  BY <1>1 DEF LastStreams, Moves
<1>3. ASSUME NEW s \in Sessions
      PROVE  InOrder(ns, new[s], s) /\ Read(ns, new[s], s) = Read(ms, buf[s], s)
  <2>1. heads[s] \in Seq(Nat) /\ new[s] \in Seq(Nat) /\ buf[s] = heads[s] \o new[s]
    BY DEF Buffers, Moves
  <2>2. InOrder(ms, heads[s] \o new[s], s)
    BY <2>1 DEF Readable
  <2>3. \A i \in DOMAIN ms : ms[i].sess = s =>
          ns[i].text = IF ms[i].streaming THEN ms[i].text \o heads[s] ELSE ms[i].text
    BY DEF Moves
  <2>4. \A i \in DOMAIN ms : ns[i].sess = ms[i].sess
    BY DEF Moves
  <2>5. Silent(ms, s) => heads[s] = <<>>
    BY DEF Moves
  <2> DEFINE u == heads[s]
             v == new[s]
  <2>6. /\ u \in Seq(Nat) /\ v \in Seq(Nat) /\ InOrder(ms, u \o v, s) /\ (Silent(ms, s) => u = <<>>)
        /\ \A i \in DOMAIN ms : ms[i].sess = s =>
             ns[i].text = IF ms[i].streaming THEN ms[i].text \o u ELSE ms[i].text
    BY <2>1, <2>2, <2>3, <2>5
  <2> HIDE DEF u, v
  <2>7. InOrder(ns, v, s) /\ Read(ns, v, s) = Read(ms, u \o v, s)
    BY <1>1, <2>4, <2>6, MovedInOrder DEF Moves
  <2> QED
    BY <2>1, <2>7 DEF u, v
<1>4. \A s \in Sessions : Silent(ms, s) => Silent(ns, s)
  BY <1>1 DEF Silent, Moves
<1> QED
  BY <1>2, <1>3, <1>4 DEF Readable, Moves

LEMMA FollowsTwice ==
  ASSUME NEW c, NEW d, NEW e, Follows(c, d), Follows(d, e)
  PROVE  Follows(c, e)
BY DEF Follows, Trims

LEMMA SavedNow ==
  ASSUME NEW d \in Chats, d.stored = d.msgs, Readable(d.msgs, d.buffer)
  PROVE  GoodChat(d)
BY DEF GoodChat, SavedAlike, PrefixOf, Chats

\* A message without text comes after the others, of which the cap may drop the first.
LEMMA PostKeeps ==
  ASSUME NEW c, GoodChat(c), NEW m \in ChatMessages, m.text = <<>>,
         m.streaming => m.sess \in Sessions, Silent(c.msgs, m.sess)
  PROVE  /\ GoodChat(Post(c, m))
         /\ \A s \in Sessions : /\ Trims(Held(Post(c, m), s), Held(c, s))
                                /\ s # m.sess => (Quiet(c, s) => Quiet(Post(c, m), s))
<1> DEFINE as == Append(c.msgs, m)
           d == Post(c, m)
<1>1. c \in Chats /\ Readable(c.msgs, c.buffer) /\ c.buffer \in Buffers
  BY DEF GoodChat, Chats
<1>2. m.sess \in Sessions \union {None}
  BY DEF ChatMessages
<1>3. /\ Readable(as, c.buffer)
      /\ \A r \in Sessions : /\ Read(as, c.buffer[r], r) = Read(c.msgs, c.buffer[r], r)
                             /\ r # m.sess => (Silent(c.msgs, r) => Silent(as, r))
  BY <1>1, <1>2, AppendedReadable
<1>4. /\ Readable(Capped(as), c.buffer)
      /\ \A s \in Sessions :
           /\ Trims(Read(Capped(as), c.buffer[s], s), Read(as, c.buffer[s], s))
           /\ Silent(as, s) => Silent(Capped(as), s)
  BY <1>3, CappedReadable
<1>5. /\ d \in Chats /\ d.msgs = Capped(as) /\ d.stored = Capped(as) /\ d.buffer = c.buffer
  BY <1>1, <1>4 DEF Post, Chats, Readable
<1>6. GoodChat(d)
  BY <1>4, <1>5, SavedNow
<1> QED
  BY <1>3, <1>4, <1>5, <1>6 DEF Held, Quiet

LEMMA SystemFollows ==
  ASSUME NEW c, GoodChat(c)
  PROVE  Follows(c, System(c))
<1> DEFINE m == [sess |-> None, text |-> <<>>, streaming |-> FALSE]
<1>1. m \in ChatMessages /\ m.text = <<>> /\ ~m.streaming /\ m.sess = None /\ None \notin Sessions
  BY ChatAssumption DEF ChatMessages
<1>2. Silent(c.msgs, None)
  BY <1>1 DEF GoodChat, Readable, LastStreams, Silent
<1> HIDE DEF m
<1>3. /\ GoodChat(Post(c, m))
      /\ \A s \in Sessions : /\ Trims(Held(Post(c, m), s), Held(c, s))
                             /\ s # m.sess => (Quiet(c, s) => Quiet(Post(c, m), s))
  BY <1>1, <1>2, PostKeeps
<1>4. System(c) = Post(c, m)
  BY DEF System, m
<1> QED
  BY <1>1, <1>3, <1>4 DEF Follows

LEMMA SeedKeeps ==
  ASSUME NEW c, GoodChat(c), NEW s \in Sessions
  PROVE  /\ GoodChat(Seed(c, s))
         /\ \A r \in Sessions : /\ Trims(Held(Seed(c, s), r), Held(c, r))
                                /\ r # s => (Quiet(c, r) => Quiet(Seed(c, s), r))
<1> DEFINE m == [sess |-> s, text |-> <<>>, streaming |-> TRUE]
<1>1. CASE StreamingAt(c, s) # {}
  BY <1>1 DEF Seed, Trims
<1>2. CASE StreamingAt(c, s) = {}
  <2>1. m \in ChatMessages /\ m.text = <<>> /\ m.sess = s
    BY DEF ChatMessages
  <2>2. Silent(c.msgs, s)
    BY <1>2, SilentIs
  <2>3. Seed(c, s) = Post(c, m)
    BY <1>2 DEF Seed
  <2> HIDE DEF m
  <2> QED
    BY <2>1, <2>2, <2>3, PostKeeps
<1> QED
  BY <1>1, <1>2

\* A stream that ends: its text is in one message that does not stream, and nothing is left.
LEMMA FinishFollows ==
  ASSUME NEW c, GoodChat(c), NEW s \in Sessions
  PROVE  Follows(c, FinishStream(c, s)) /\ Quiet(FinishStream(c, s), s)
<1> DEFINE d == FinishStream(c, s)
           new == [c.buffer EXCEPT ![s] = <<>>]
           m == [sess |-> s, text |-> c.buffer[s], streaming |-> FALSE]
           ms == IF StreamingAt(c, s) = {} /\ c.buffer[s] # <<>> THEN Append(c.msgs, m) ELSE Ended(c, s)
<1>1. /\ c \in Chats /\ Readable(c.msgs, c.buffer) /\ c.buffer \in Buffers /\ c.msgs \in Seq(ChatMessages)
      /\ LastStreams(c.msgs)
  BY DEF GoodChat, Chats, Readable
<1>2. /\ new \in Buffers /\ new[s] = <<>> /\ \A r \in Sessions : r # s => new[r] = c.buffer[r]
  BY <1>1 DEF Buffers
<1>3. /\ Readable(ms, new) /\ Silent(ms, s)
      /\ \A r \in Sessions : /\ Read(ms, new[r], r) = Read(c.msgs, c.buffer[r], r)
                             /\ r # s => (Silent(c.msgs, r) => Silent(ms, r))
  <2>1. CASE StreamingAt(c, s) = {} /\ c.buffer[s] # <<>>
    <3>1. m \in ChatMessages /\ m.sess = s /\ ~m.streaming /\ m.text = c.buffer[s]
      BY <1>1 DEF ChatMessages, Buffers
    <3>2. Silent(c.msgs, s)
      BY <2>1, SilentIs
    <3> HIDE DEF m
    <3>3. /\ Readable(Append(c.msgs, m), new)
          /\ \A r \in Sessions : /\ Read(Append(c.msgs, m), new[r], r) = Read(c.msgs, c.buffer[r], r)
                                 /\ r # s => (Silent(c.msgs, r) => Silent(Append(c.msgs, m), r))
      <4> HIDE DEF new
      <4>1. s \in Sessions \union {None} /\ (m.streaming => s \in Sessions)
            /\ (s \in Sessions => \/ m.text = <<>> /\ new[s] = c.buffer[s]
                                  \/ m.text = c.buffer[s] /\ new[s] = <<>>)
        BY <1>2, <3>1
      <4> QED
        BY <1>1, <1>2, <3>1, <3>2, <4>1, AppendedReadable
    <3>4. Silent(Append(c.msgs, m), s)
      BY <1>1, <3>1, <3>2 DEF Silent
    <3> QED
      BY <2>1, <3>3, <3>4
  <2>2. CASE ~(StreamingAt(c, s) = {} /\ c.buffer[s] # <<>>)
    <3> DEFINE ns == Ended(c, s)
               heads == [r \in Sessions |-> IF r = s THEN c.buffer[s] ELSE <<>>]
    <3>1. /\ DOMAIN ns = DOMAIN c.msgs
          /\ \A i \in DOMAIN c.msgs :
               ns[i] = IF c.msgs[i].sess = s /\ c.msgs[i].streaming
                         THEN [c.msgs[i] EXCEPT !.text = @ \o c.buffer[s], !.streaming = FALSE] ELSE c.msgs[i]
      BY <1>1, OneTarget DEF Ended
    <3>0. ns = [i \in DOMAIN c.msgs |-> ns[i]]
      BY DEF Ended
    <3>2. \A i \in DOMAIN c.msgs : c.msgs[i] \in ChatMessages /\ c.msgs[i].text \in Seq(Nat)
      <4>1. \A i \in DOMAIN c.msgs : c.msgs[i] \in ChatMessages
        BY <1>1
      <4> QED
        BY <4>1 DEF ChatMessages
    <3>3. c.buffer[s] \in Seq(Nat)
      BY <1>1 DEF Buffers
    <3> HIDE DEF ns
    <3>4. ASSUME NEW i \in DOMAIN c.msgs
          PROVE  /\ ns[i] \in ChatMessages /\ ns[i].sess = c.msgs[i].sess
                 /\ ns[i].streaming => c.msgs[i].streaming
                 /\ c.msgs[i].sess = s => ~ns[i].streaming
                 /\ c.msgs[i].sess # s => ns[i] = c.msgs[i]
                 /\ c.msgs[i].sess = s =>
                      ns[i].text = IF c.msgs[i].streaming THEN c.msgs[i].text \o c.buffer[s] ELSE c.msgs[i].text
      <4>1. c.msgs[i].text \o c.buffer[s] \in Seq(Nat)
        BY <3>2, <3>3
      <4> QED
        BY <3>1, <3>2, <4>1 DEF ChatMessages
    <3>5. ns \in Seq(ChatMessages) /\ Len(ns) = Len(c.msgs)
      <4>1. DOMAIN c.msgs = 1 .. Len(c.msgs) /\ Len(c.msgs) \in Nat
        BY <1>1
      <4>2. ns \in [1 .. Len(c.msgs) -> ChatMessages]
        BY <3>0, <3>4, <4>1
      <4> QED
        BY <4>1, <4>2
    <3>6. heads \in Buffers
      BY <3>3 DEF Buffers
    <3>7. \A r \in Sessions : /\ c.buffer[r] = heads[r] \o new[r]
                              /\ Silent(c.msgs, r) => heads[r] = <<>>
      <4> SUFFICES ASSUME NEW r \in Sessions
                   PROVE  /\ c.buffer[r] = heads[r] \o new[r]
                          /\ Silent(c.msgs, r) => heads[r] = <<>>
        OBVIOUS
      <4>1. c.buffer[r] \in Seq(Nat)
        BY <1>1 DEF Buffers
      <4>2. c.buffer[r] \o <<>> = c.buffer[r] /\ <<>> \o c.buffer[r] = c.buffer[r]
        BY <4>1
      <4>3. Silent(c.msgs, s) => c.buffer[s] = <<>>
        BY <2>2, SilentIs
      <4> QED
        BY <1>2, <4>2, <4>3
    <3>8. \A i \in DOMAIN c.msgs : c.msgs[i].sess \in Sessions =>
            ns[i].text = IF c.msgs[i].streaming THEN c.msgs[i].text \o heads[c.msgs[i].sess]
                                                ELSE c.msgs[i].text
      <4> SUFFICES ASSUME NEW i \in DOMAIN c.msgs, c.msgs[i].sess \in Sessions
                   PROVE  ns[i].text = IF c.msgs[i].streaming THEN c.msgs[i].text \o heads[c.msgs[i].sess]
                                                              ELSE c.msgs[i].text
        OBVIOUS
      <4>1. c.msgs[i].text \o <<>> = c.msgs[i].text
        BY <3>2
      <4>2. CASE c.msgs[i].sess = s
        BY <3>4, <4>2
      <4>3. CASE c.msgs[i].sess # s
        <5>1. ns[i] = c.msgs[i] /\ heads[c.msgs[i].sess] = <<>>
          BY <3>4, <4>3
        <5> QED
          BY <4>1, <5>1
      <4> QED
        BY <4>2, <4>3
    <3>9. \A i \in DOMAIN c.msgs :
            ns[i].sess = c.msgs[i].sess /\ (ns[i].streaming => c.msgs[i].streaming)
      BY <3>4
    <3>10. /\ Readable(ns, new)
           /\ \A r \in Sessions : /\ Read(ns, new[r], r) = Read(c.msgs, c.buffer[r], r)
                                  /\ Silent(c.msgs, r) => Silent(ns, r)
      <4> HIDE DEF heads, new
      <4>1. Moves(c.msgs, c.buffer, ns, heads, new)
        BY <1>2, <3>5, <3>6, <3>7, <3>8, <3>9 DEF Moves
      <4> QED
        BY <1>1, <4>1, MovedReadable
    <3>11. Silent(ns, s)
      BY <3>1, <3>4 DEF Silent
    <3>12. ms = ns
      BY <2>2 DEF ns
    <3> QED
      BY <3>10, <3>11, <3>12
  <2> QED
    BY <2>1, <2>2
<1> HIDE DEF ms
<1>4. /\ Readable(Capped(ms), new)
      /\ \A r \in Sessions : /\ Trims(Read(Capped(ms), new[r], r), Read(ms, new[r], r))
                             /\ Silent(ms, r) => Silent(Capped(ms), r)
  BY <1>3, CappedReadable
<1>5. d.msgs = Capped(ms) /\ d.stored = Capped(ms) /\ d.buffer = new /\ d \in Chats
  BY <1>1, <1>2, <1>4 DEF FinishStream, ms, Chats, Readable
<1>6. GoodChat(d)
  BY <1>4, <1>5, SavedNow
<1>7. ASSUME NEW r \in Sessions
      PROVE  Trims(Held(d, r), Held(c, r)) /\ (Quiet(c, r) => Quiet(d, r))
  BY <1>2, <1>3, <1>4, <1>5 DEF Held, Quiet
<1>8. Quiet(d, s)
  BY <1>2, <1>3, <1>4, <1>5 DEF Quiet
<1> HIDE DEF d
<1> QED
  BY <1>6, <1>7, <1>8 DEF Follows, d

LEMMA CutInTwo ==
  ASSUME NEW t \in Seq(Nat), NEW n \in Nat, n <= Len(t)
  PROVE  /\ SubSeq(t, 1, n) \in Seq(Nat) /\ SubSeq(t, n + 1, Len(t)) \in Seq(Nat)
         /\ t = SubSeq(t, 1, n) \o SubSeq(t, n + 1, Len(t))
         /\ n = 0 => SubSeq(t, 1, n) = <<>>
<1>1. SubSeq(t, 1, n) \in Seq(Nat) /\ SubSeq(t, n + 1, Len(t)) \in Seq(Nat)
  BY SubSeqProperties
<1>2. SubSeq(t, 1, n) \o SubSeq(t, n + 1, Len(t)) = SubSeq(t, 1, Len(t))
  <2> DEFINE one == 1
             l == Len(t)
  <2>1. one \in 1 .. Len(t) + 1 /\ n \in one - 1 .. Len(t) /\ l \in n .. Len(t)
    OBVIOUS
  <2> HIDE DEF one, l
  <2>2. SubSeq(t, one, n) \o SubSeq(t, n + 1, l) = SubSeq(t, one, l)
    BY <2>1, ConcatAdjacentSubSeq
  <2> QED
    BY <2>2 DEF one, l
<1>3. SubSeq(t, 1, Len(t)) = t
  BY SubSeqFull
<1>4. n = 0 => SubSeq(t, 1, n) = <<>>
  BY SubSeqEmpty
<1> QED
  BY <1>1, <1>2, <1>3, <1>4

\* The typewriter shows what was buffered and changes nothing of what is read.
LEMMA TypedFollows ==
  ASSUME NEW c, GoodChat(c), NEW k \in Nat
  PROVE  Follows(c, Typed(c, k))
<1> DEFINE d == Typed(c, k)
           heads == [s \in Sessions |-> SubSeq(c.buffer[s], 1, Taken(c, s, k))]
<1>1. /\ c \in Chats /\ Readable(c.msgs, c.buffer) /\ c.buffer \in Buffers /\ c.msgs \in Seq(ChatMessages)
      /\ LastStreams(c.msgs) /\ SavedAlike(c)
  BY DEF GoodChat, Chats, Readable
<1>2. ASSUME NEW s \in Sessions
      PROVE  /\ c.buffer[s] \in Seq(Nat) /\ Taken(c, s, k) \in Nat /\ Taken(c, s, k) <= Len(c.buffer[s])
             /\ Silent(c.msgs, s) => Taken(c, s, k) = 0
  BY <1>1, SilentIs DEF Taken, Buffers
<1>3. /\ d.buffer = [s \in Sessions |-> SubSeq(c.buffer[s], Taken(c, s, k) + 1, Len(c.buffer[s]))]
      /\ d.msgs = [i \in DOMAIN c.msgs |->
                     IF IsTarget(c, i)
                       THEN [c.msgs[i] EXCEPT !.text =
                               @ \o SubSeq(c.buffer[c.msgs[i].sess], 1, Taken(c, c.msgs[i].sess, k))]
                       ELSE c.msgs[i]]
      /\ d.stored = c.stored /\ d.active = c.active /\ d = [c EXCEPT !.msgs = d.msgs, !.buffer = d.buffer]
  BY <1>1 DEF Typed, Chats
<1>4. ASSUME NEW s \in Sessions
      PROVE  /\ heads[s] \in Seq(Nat) /\ d.buffer[s] \in Seq(Nat) /\ c.buffer[s] = heads[s] \o d.buffer[s]
             /\ Silent(c.msgs, s) => heads[s] = <<>>
  <2> DEFINE t == c.buffer[s]
             n == Taken(c, s, k)
  <2>1. t \in Seq(Nat) /\ n \in Nat /\ n <= Len(t) /\ (Silent(c.msgs, s) => n = 0)
    BY <1>2
  <2>2. heads[s] = SubSeq(t, 1, n) /\ d.buffer[s] = SubSeq(t, n + 1, Len(t))
    BY <1>3
  <2> HIDE DEF t, n, d, heads
  <2>3. /\ heads[s] \in Seq(Nat) /\ d.buffer[s] \in Seq(Nat) /\ t = heads[s] \o d.buffer[s]
        /\ n = 0 => heads[s] = <<>>
    BY <2>1, <2>2, CutInTwo
  <2> QED
    BY <2>1, <2>3 DEF t
<1>5. \A i \in DOMAIN c.msgs : c.msgs[i] \in ChatMessages /\ c.msgs[i].text \in Seq(Nat)
  <2>1. \A i \in DOMAIN c.msgs : c.msgs[i] \in ChatMessages
    BY <1>1
  <2> QED
    BY <2>1 DEF ChatMessages
<1>6. \A i \in DOMAIN c.msgs :
        /\ IsTarget(c, i) <=> c.msgs[i].streaming
        /\ c.msgs[i].streaming => c.msgs[i].sess \in Sessions
  BY <1>1, OneTarget DEF LastStreams
<1>7. ASSUME NEW i \in DOMAIN c.msgs
      PROVE  d.msgs[i] = IF c.msgs[i].streaming THEN [c.msgs[i] EXCEPT !.text = @ \o heads[c.msgs[i].sess]]
                                                ELSE c.msgs[i]
  <2>1. CASE c.msgs[i].streaming
    <3>1. IsTarget(c, i) /\ c.msgs[i].sess \in Sessions
      BY <1>6, <2>1
    <3>2. heads[c.msgs[i].sess] = SubSeq(c.buffer[c.msgs[i].sess], 1, Taken(c, c.msgs[i].sess, k))
      BY <3>1
    <3>3. d.msgs[i] = [c.msgs[i] EXCEPT !.text =
                         @ \o SubSeq(c.buffer[c.msgs[i].sess], 1, Taken(c, c.msgs[i].sess, k))]
      BY <1>3, <3>1
    <3> HIDE DEF heads, d
    <3> QED
      BY <2>1, <3>2, <3>3
  <2>2. CASE ~c.msgs[i].streaming
    <3>1. ~IsTarget(c, i)
      BY <1>6, <2>2
    <3> QED
      BY <1>3, <2>2, <3>1
  <2> QED
    BY <2>1, <2>2
<1>8. d.msgs = [i \in DOMAIN c.msgs |-> d.msgs[i]]
  BY <1>3
<1>9. heads \in Buffers /\ d.buffer \in Buffers
  BY <1>3, <1>4 DEF Buffers
<1> HIDE DEF d, heads
<1>10. ASSUME NEW i \in DOMAIN c.msgs
       PROVE  /\ d.msgs[i] \in ChatMessages /\ d.msgs[i].sess = c.msgs[i].sess
              /\ d.msgs[i].streaming = c.msgs[i].streaming
              /\ c.msgs[i].sess \in Sessions =>
                   d.msgs[i].text = IF c.msgs[i].streaming THEN c.msgs[i].text \o heads[c.msgs[i].sess]
                                                           ELSE c.msgs[i].text
              /\ PrefixOf(c.msgs[i].text, d.msgs[i].text)
  <2>1. CASE c.msgs[i].streaming
    <3>1. heads[c.msgs[i].sess] \in Seq(Nat)
      BY <1>4, <1>6, <2>1
    <3>2. c.msgs[i].text \o heads[c.msgs[i].sess] \in Seq(Nat)
          /\ PrefixOf(c.msgs[i].text, c.msgs[i].text \o heads[c.msgs[i].sess])
      <4> DEFINE t == c.msgs[i].text
                 u == heads[c.msgs[i].sess]
      <4>1. t \in Seq(Nat) /\ u \in Seq(Nat)
        BY <1>5, <3>1
      <4> HIDE DEF t, u
      <4>2. t \o u \in Seq(Nat) /\ \A a \in DOMAIN t : a \in DOMAIN (t \o u) /\ t[a] = (t \o u)[a]
        BY <4>1
      <4> QED
        BY <4>2 DEF PrefixOf, t, u
    <3>3. d.msgs[i] = [c.msgs[i] EXCEPT !.text = c.msgs[i].text \o heads[c.msgs[i].sess]]
      BY <1>7, <2>1
    <3> DEFINE x == c.msgs[i].text \o heads[c.msgs[i].sess]
    <3>4. d.msgs[i].text = x /\ d.msgs[i] \in ChatMessages /\ d.msgs[i].sess = c.msgs[i].sess
          /\ d.msgs[i].streaming = c.msgs[i].streaming
      <4>1. x \in Seq(Nat) /\ d.msgs[i] = [c.msgs[i] EXCEPT !.text = x]
        BY <3>2, <3>3
      <4> HIDE DEF x
      <4> QED
        BY <1>5, <4>1 DEF ChatMessages
    <3> QED
      BY <2>1, <3>2, <3>4
  <2>2. CASE ~c.msgs[i].streaming
    BY <1>5, <1>7, <2>2 DEF PrefixOf
  <2> QED
    BY <2>1, <2>2
<1>11. d.msgs \in Seq(ChatMessages) /\ Len(d.msgs) = Len(c.msgs)
  <2>1. DOMAIN c.msgs = 1 .. Len(c.msgs) /\ Len(c.msgs) \in Nat
    BY <1>1
  <2>2. d.msgs \in [1 .. Len(c.msgs) -> ChatMessages]
    BY <1>8, <1>10, <2>1
  <2> QED
    BY <2>1, <2>2
<1>12. Moves(c.msgs, c.buffer, d.msgs, heads, d.buffer)
  BY <1>4, <1>9, <1>10, <1>11 DEF Moves
<1>13. /\ Readable(d.msgs, d.buffer)
       /\ \A s \in Sessions : /\ Read(d.msgs, d.buffer[s], s) = Read(c.msgs, c.buffer[s], s)
                              /\ Silent(c.msgs, s) => Silent(d.msgs, s)
  BY <1>1, <1>12, MovedReadable
<1>14. d \in Chats
  BY <1>1, <1>3, <1>9, <1>11 DEF Chats
<1>15. SavedAlike(d)
  <2>1. Len(d.stored) = Len(d.msgs) /\ DOMAIN d.msgs = DOMAIN c.msgs
    BY <1>1, <1>3, <1>8, <1>11 DEF SavedAlike
  <2>2. ASSUME NEW i \in DOMAIN d.msgs
        PROVE  /\ d.stored[i].sess = d.msgs[i].sess /\ d.stored[i].streaming = d.msgs[i].streaming
               /\ PrefixOf(d.stored[i].text, d.msgs[i].text)
    <3>1. /\ c.stored[i].sess = c.msgs[i].sess /\ c.stored[i].streaming = c.msgs[i].streaming
          /\ PrefixOf(c.stored[i].text, c.msgs[i].text)
      BY <1>1, <2>1 DEF SavedAlike
    <3>2. /\ d.msgs[i].sess = c.msgs[i].sess /\ d.msgs[i].streaming = c.msgs[i].streaming
          /\ PrefixOf(c.msgs[i].text, d.msgs[i].text)
      BY <1>10, <2>1
    <3>3. PrefixOf(c.stored[i].text, d.msgs[i].text)
      BY <3>1, <3>2 DEF PrefixOf
    <3> QED
      BY <1>3, <3>1, <3>2, <3>3
  <2> QED
    BY <2>1, <2>2 DEF SavedAlike
<1>16. ASSUME NEW s \in Sessions, Quiet(c, s) PROVE Quiet(d, s)
  <2>1. c.buffer[s] = <<>> /\ d.buffer[s] = SubSeq(<<>>, Taken(c, s, k) + 1, 0) /\ Taken(c, s, k) = 0
    BY <1>2, <1>3, <1>16 DEF Quiet
  <2> QED
    BY <1>13, <1>16, <2>1 DEF Quiet
<1> QED
  BY <1>13, <1>14, <1>15, <1>16 DEF Follows, GoodChat, Held, Trims, d

LEMMA DeltaKeeps ==
  ASSUME NEW c, GoodChat(c), NEW s \in Sessions, NEW n \in Nat, \A x \in Held(c, s) : x < n
  PROVE  /\ GoodChat(AppendDelta(c, s, n))
         /\ \A x : x \in Held(AppendDelta(c, s, n), s) <=> x \in Held(c, s) \/ x = n
         /\ \A r \in Sessions : r # s => /\ Held(AppendDelta(c, s, n), r) = Held(c, r)
                                         /\ Quiet(c, r) => Quiet(AppendDelta(c, s, n), r)
<1> DEFINE d == AppendDelta(c, s, n)
           t == c.buffer[s]
           w == Append(t, n)
<1>1. /\ c \in Chats /\ c.msgs \in Seq(ChatMessages) /\ c.buffer \in Buffers /\ LastStreams(c.msgs)
      /\ SavedAlike(c) /\ \A r \in Sessions : InOrder(c.msgs, c.buffer[r], r)
  BY DEF GoodChat, Readable, Chats
<1>2. t \in Seq(Nat)
  BY <1>1 DEF Buffers
<1>3. /\ w \in Seq(Nat) /\ \A a \in DOMAIN t : a \in DOMAIN w /\ w[a] = t[a] /\ a <= Len(t)
      /\ \A a \in DOMAIN w : (a \in DOMAIN t /\ w[a] = t[a]) \/ (a = Len(t) + 1 /\ w[a] = n)
      /\ Len(t) + 1 \in DOMAIN w /\ w[Len(t) + 1] = n /\ Len(t) \in Nat
      /\ \A a \in DOMAIN w : a \in Nat /\ a <= Len(t) + 1
  <2>1. t \in Seq(Nat) /\ w \in Seq(Nat) /\ Len(t) \in Nat /\ Len(w) = Len(t) + 1
    BY <1>2
  <2>2. DOMAIN t = 1 .. Len(t) /\ DOMAIN w = 1 .. Len(t) + 1
    BY <2>1
  <2>3. (\A a \in 1 .. Len(t) : w[a] = t[a]) /\ w[Len(t) + 1] = n
    BY <1>2
  <2> HIDE DEF w, t
  <2> QED
    BY <2>1, <2>2, <2>3
<1>4. d \in Chats /\ d.msgs = c.msgs /\ d.stored = c.stored /\ d.active = c.active
      /\ d.buffer = [c.buffer EXCEPT ![s] = w] /\ d.buffer \in Buffers
  BY <1>1, <1>3 DEF AppendDelta, Chats, Buffers
<1>5. d.buffer[s] = w /\ \A r \in Sessions : r # s => d.buffer[r] = c.buffer[r]
  BY <1>1, <1>4 DEF Buffers
<1>6. \A a \in DOMAIN t : t[a] < n
  BY DEF Held, Read, ToSet
<1>7. \A i \in DOMAIN c.msgs : c.msgs[i].sess = s => \A a \in DOMAIN c.msgs[i].text : c.msgs[i].text[a] < n
  BY DEF Held, Read, ToSet
<1> HIDE DEF w, t, d
<1>8. InOrder(c.msgs, w, s)
  <2>1. InOrder(c.msgs, t, s)
    BY <1>1 DEF t
  <2>2. Ascends(w)
    <3> SUFFICES ASSUME NEW a \in DOMAIN w, NEW b \in DOMAIN w, a < b
                 PROVE  w[a] < w[b]
      BY DEF Ascends
    <3>1. a \in DOMAIN t /\ w[a] = t[a]
      BY <1>3
    <3>2. CASE b \in DOMAIN t /\ w[b] = t[b]
      BY <2>1, <3>1, <3>2 DEF InOrder, Ascends
    <3>3. CASE w[b] = n
      BY <1>6, <3>1, <3>3
    <3> QED
      BY <1>3, <3>2, <3>3
  <2>3. \A i \in DOMAIN c.msgs : c.msgs[i].sess = s => Before(c.msgs[i].text, w)
    BY <1>3, <1>7, <2>1 DEF InOrder, Before
  <2> QED
    BY <2>1, <2>2, <2>3 DEF InOrder
<1>9. \A r \in Sessions : InOrder(d.msgs, d.buffer[r], r)
  BY <1>1, <1>4, <1>5, <1>8
<1>10. GoodChat(d)
  BY <1>1, <1>4, <1>9 DEF GoodChat, Readable, SavedAlike
<1>11. ASSUME NEW x PROVE x \in Held(d, s) <=> x \in Held(c, s) \/ x = n
  <2>1. x \in ToSet(w) <=> x \in ToSet(t) \/ x = n
    BY <1>3 DEF ToSet
  <2>2. /\ x \in Held(d, s) <=> x \in ToSet(w)
             \/ \E i \in DOMAIN c.msgs : c.msgs[i].sess = s /\ x \in ToSet(c.msgs[i].text)
        /\ x \in Held(c, s) <=> x \in ToSet(t)
             \/ \E i \in DOMAIN c.msgs : c.msgs[i].sess = s /\ x \in ToSet(c.msgs[i].text)
    BY <1>4, <1>5 DEF Held, Read, t
  <2> QED
    BY <2>1, <2>2
<1>12. \A r \in Sessions : r # s => Held(d, r) = Held(c, r) /\ (Quiet(c, r) => Quiet(d, r))
  BY <1>4, <1>5 DEF Held, Quiet
<1> QED
  BY <1>10, <1>11, <1>12 DEF d

\* The stored messages shown again: less is read.
LEMMA StoredKeeps ==
  ASSUME NEW c, GoodChat(c), NEW d, d = [c EXCEPT !.msgs = c.stored]
  PROVE  /\ GoodChat(d)
         /\ \A s \in Sessions : Held(d, s) \subseteq Held(c, s) /\ (Quiet(c, s) => Quiet(d, s))
<1>1. /\ c \in Chats /\ c.msgs \in Seq(ChatMessages) /\ c.stored \in Seq(ChatMessages) /\ c.buffer \in Buffers
      /\ LastStreams(c.msgs) /\ SavedAlike(c) /\ \A s \in Sessions : InOrder(c.msgs, c.buffer[s], s)
  BY DEF GoodChat, Readable, Chats
<1>2. d \in Chats /\ d.msgs = c.stored /\ d.stored = c.stored /\ d.buffer = c.buffer
  BY <1>1 DEF Chats
<1>3. /\ DOMAIN c.stored = DOMAIN c.msgs
      /\ \A i \in DOMAIN c.msgs :
           /\ c.stored[i].sess = c.msgs[i].sess /\ c.stored[i].streaming = c.msgs[i].streaming
           /\ PrefixOf(c.stored[i].text, c.msgs[i].text)
  BY <1>1 DEF SavedAlike
<1>4. LastStreams(c.stored)
  BY <1>1, <1>3 DEF LastStreams
<1>5. ASSUME NEW s \in Sessions PROVE InOrder(c.stored, c.buffer[s], s)
  <2>1. InOrder(c.msgs, c.buffer[s], s)
    BY <1>1
  <2>2. \A i \in DOMAIN c.stored : c.stored[i].sess = s =>
          Ascends(c.stored[i].text) /\ Before(c.stored[i].text, c.buffer[s])
    BY <1>3, <2>1 DEF InOrder, Ascends, Before, PrefixOf
  <2>3. ASSUME NEW i \in DOMAIN c.stored, NEW j \in DOMAIN c.stored, i < j,
               c.stored[i].sess = s, c.stored[j].sess = s
        PROVE  Before(c.stored[i].text, c.stored[j].text)
    <3>1. Before(c.msgs[i].text, c.msgs[j].text)
      BY <1>3, <2>1, <2>3 DEF InOrder
    <3> QED
      BY <1>3, <3>1 DEF Before, PrefixOf
  <2> QED
    BY <2>1, <2>2, <2>3 DEF InOrder
<1>6. GoodChat(d)
  BY <1>1, <1>2, <1>4, <1>5, SavedNow DEF Readable
<1>7. ASSUME NEW s \in Sessions PROVE Held(d, s) \subseteq Held(c, s) /\ (Quiet(c, s) => Quiet(d, s))
  <2>1. \A i \in DOMAIN c.msgs : ToSet(c.stored[i].text) \subseteq ToSet(c.msgs[i].text)
    BY <1>3 DEF PrefixOf, ToSet
  <2>2. Held(d, s) \subseteq Held(c, s)
    BY <1>2, <1>3, <2>1 DEF Held, Read
  <2>3. Quiet(c, s) => Quiet(d, s)
    BY <1>2, <1>3 DEF Quiet, Silent
  <2> QED
    BY <2>2, <2>3
<1> QED
  BY <1>6, <1>7

LEMMA ActiveFollows ==
  ASSUME NEW c, GoodChat(c), NEW x \in Sessions \union {None}, NEW d, d = [c EXCEPT !.active = x]
  PROVE  Follows(c, d)
<1>1. d \in Chats /\ d.msgs = c.msgs /\ d.stored = c.stored /\ d.buffer = c.buffer
  BY DEF GoodChat, Chats
<1>2. GoodChat(d)
  BY <1>1 DEF GoodChat, SavedAlike
<1> QED
  BY <1>1, <1>2 DEF Follows, Held, Quiet, Trims

LEMMA ClearFollows ==
  ASSUME NEW c, GoodChat(c)
  PROVE  Follows(c, ClearMessages(c))
<1> DEFINE d == ClearMessages(c)
<1>1. /\ d \in Chats /\ d.msgs = <<>> /\ d.stored = <<>> /\ d.buffer \in Buffers
      /\ \A s \in Sessions : d.buffer[s] = <<>>
  <2> DEFINE new == [s \in Sessions |-> <<>>]
  <2>1. new \in Buffers /\ \A s \in Sessions : new[s] = <<>>
    BY DEF Buffers
  <2>2. d = [c EXCEPT !.msgs = <<>>, !.stored = <<>>, !.buffer = new]
    BY DEF ClearMessages
  <2>3. c \in Chats
    BY DEF GoodChat
  <2> HIDE DEF new, d
  <2>4. d = [msgs |-> <<>>, stored |-> <<>>, buffer |-> new, active |-> c.active]
        /\ c.active \in Sessions \union {None}
    BY <2>2, <2>3 DEF Chats
  <2> QED
    BY <2>1, <2>4 DEF Chats
<1> HIDE DEF d
<1>2. d.msgs \in Seq(ChatMessages) /\ DOMAIN d.msgs = {} /\ \A s \in Sessions : DOMAIN d.buffer[s] = {}
  BY <1>1
<1>3. LastStreams(d.msgs) /\ \A s \in Sessions : InOrder(d.msgs, d.buffer[s], s)
  BY <1>2 DEF LastStreams, InOrder, Ascends
<1>4. GoodChat(d)
  BY <1>1, <1>2, <1>3, SavedNow DEF Readable
<1>5. \A s \in Sessions : Held(d, s) = {} /\ Quiet(d, s)
  BY <1>1, <1>2 DEF Held, Read, ToSet, Quiet, Silent
<1> QED
  BY <1>4, <1>5 DEF Follows, Trims, d

LEMMA ChatInvInit == ChatInit => ChatInv
<1> SUFFICES ASSUME ChatInit PROVE ChatInv
  OBVIOUS
<1>2. /\ chat.msgs = <<>> /\ chat.stored = <<>> /\ \A s \in Sessions : chat.buffer[s] = <<>>
      /\ chat \in Chats
  <2> DEFINE new == [s \in Sessions |-> <<>>]
  <2>1. new \in Buffers /\ \A s \in Sessions : new[s] = <<>>
    BY DEF Buffers
  <2>2. chat = [msgs |-> <<>>, stored |-> <<>>, buffer |-> new, active |-> None]
    BY DEF ChatInit
  <2> HIDE DEF new
  <2> QED
    BY <2>1, <2>2 DEF Chats
<1>3. /\ DOMAIN chat.msgs = {} /\ chat.msgs \in Seq(ChatMessages) /\ chat.buffer \in Buffers
      /\ \A s \in Sessions : DOMAIN chat.buffer[s] = {}
  BY <1>2 DEF Chats
<1>4. Readable(chat.msgs, chat.buffer)
  BY <1>3 DEF Readable, LastStreams, InOrder, Ascends
<1>5. GoodChat(chat)
  BY <1>2, <1>4, SavedNow
<1>6. \A s \in Sessions : Held(chat, s) = {} /\ Quiet(chat, s)
  BY <1>2, <1>3 DEF Held, Read, ToSet, Quiet, Silent
<1>7. NoStream \in Streams /\ NoStream.last = 0 /\ NoStream.phase = "none" /\ Len(NoStream.script) = 0
  BY DEF NoStream, Streams
<1>8. ChatTypes
  BY <1>2, <1>7 DEF ChatTypes, ChatInit
<1>9. ASSUME NEW s \in Sessions PROVE StreamStands(s) /\ ReadsItsDeltas(s) /\ DoneIsOver(s)
  <2>1. streams[s] = NoStream /\ scene.creating = {} /\ scene.handle = None /\ None # s
    BY ChatAssumption DEF ChatInit
  <2>2. StreamStands(s)
    BY <1>7, <2>1 DEF StreamStands
  <2>3. ReadsItsDeltas(s)
    BY <1>6 DEF ReadsItsDeltas, Trims
  <2>4. DoneIsOver(s)
    BY <1>7, <2>1 DEF DoneIsOver
  <2> QED
    BY <2>2, <2>3, <2>4
<1> QED
  BY <1>5, <1>8, <1>9 DEF ChatInv

\* A step in which no session hears anything new keeps the invariant.
LEMMA NothingHeardKeeps ==
  ASSUME ChatInv, ChatTypes', Follows(chat, chat'), faults'.remounts = faults.remounts,
         \A s \in Sessions :
           /\ streams'[s].last = streams[s].last /\ streams'[s].script = streams[s].script
           /\ streams[s].phase = "over" => streams'[s].phase = "over"
           /\ streams[s].phase = "none" => streams'[s] = streams[s]
           /\ streams[s].phase # "none" => streams'[s].phase # "none"
           /\ s \in scene'.creating => streams[s].phase = "none"
           /\ scene'.handle = s => streams[s].phase # "none"
  PROVE  ChatInv'
<1>1. GoodChat(chat')
  BY DEF Follows
<1>2. ASSUME NEW s \in Sessions
      PROVE  StreamStands(s)' /\ ReadsItsDeltas(s)' /\ DoneIsOver(s)'
  <2>1. StreamStands(s) /\ ReadsItsDeltas(s) /\ DoneIsOver(s)
    BY DEF ChatInv
  <2>2. Trims(Held(chat', s), Held(chat, s)) /\ (Quiet(chat, s) => Quiet(chat', s))
    BY DEF Follows
  <2>3. StreamStands(s)'
    BY <2>1 DEF StreamStands
  <2>4. Deltas(streams[s]) = Deltas(streams'[s])
    BY DEF Deltas
  <2>5. ReadsItsDeltas(s)'
    <3>1. Held(chat', s) \subseteq Deltas(streams'[s])
      BY <2>1, <2>2, <2>4 DEF ReadsItsDeltas, Trims
    <3>2. ASSUME faults.remounts = 0
          PROVE  Trims(Held(chat', s), Deltas(streams'[s]))
      BY <2>1, <2>2, <2>4, <3>1, <3>2 DEF ReadsItsDeltas, Trims
    <3> QED
      BY <3>1, <3>2 DEF ReadsItsDeltas
  <2>6. DoneIsOver(s)'
    BY <2>1, <2>2 DEF DoneIsOver
  <2> QED
    BY <2>3, <2>5, <2>6
<1> QED
  BY <1>1, <1>2 DEF ChatInv

LEMMA SameChatFollows ==
  ASSUME NEW c, GoodChat(c)
  PROVE  Follows(c, c)
BY DEF Follows, Trims

\* What becomes of a stream that is closed, or loses its connection.
LEMMA ClosedStream ==
  ASSUME NEW st \in Streams
  PROVE  /\ Closed(st) \in Streams /\ Closed(st).last = st.last /\ Closed(st).script = st.script
         /\ Closed(st).phase \in {st.phase, "over"} /\ (st.phase = "over" => Closed(st).phase = "over")
BY DEF Closed, Streams

LEMMA LostStream ==
  ASSUME NEW st \in Streams, NEW reconnect \in BOOLEAN
  PROVE  /\ HandleClose(st, reconnect) \in Streams /\ HandleClose(st, reconnect).last = st.last
         /\ HandleClose(st, reconnect).script = st.script
         /\ HandleClose(st, reconnect).phase \in {"over", "waiting"}
         /\ ~reconnect => HandleClose(st, reconnect).phase = "over"
BY DEF HandleClose, Streams

\* A stream goes on without an event.
LEMMA StreamGoesOn ==
  ASSUME ChatInv, NEW s \in Sessions, NEW x \in Streams, streams' = [streams EXCEPT ![s] = x],
         x.last = streams[s].last, x.script = streams[s].script, x.phase # "none",
         streams[s].phase \notin {"none", "over"}, scene' = scene, Follows(chat, chat'),
         faults'.remounts = faults.remounts,
         faults' \in [drops : Nat, remounts : Nat, commands : Nat]
  PROVE  ChatInv'
<1>1. streams \in [Sessions -> Streams]
  BY DEF ChatInv, ChatTypes
<1>2. streams'[s] = x /\ \A r \in Sessions : r # s => streams'[r] = streams[r]
  BY <1>1
<1>3. ChatTypes'
  BY <1>1 DEF ChatInv, ChatTypes, Follows, GoodChat
<1> QED
  BY <1>2, <1>3, NothingHeardKeeps DEF ChatInv, StreamStands

\* A session hears its next event.
LEMMA HeardKeeps ==
  ASSUME ChatInv, NEW s \in Sessions, NEW x \in Streams, streams' = [streams EXCEPT ![s] = x],
         streams[s].phase = "open", streams[s].last < Len(streams[s].script),
         x.last = streams[s].last + 1, x.script = streams[s].script, x.phase # "none",
         scene' = scene, faults' = faults, GoodChat(chat'),
         \A r \in Sessions : r # s => /\ Trims(Held(chat', r), Held(chat, r))
                                      /\ Quiet(chat, r) => Quiet(chat', r),
         NEW H, Trims(H, Held(chat, s)),
         \A y : y \in Held(chat', s) <=> y \in H \/ (y = x.last /\ x.script[x.last] = "delta"),
         x.script[x.last] = "done" => x.phase = "over" /\ Quiet(chat', s)
  PROVE  ChatInv'
<1>1. streams \in [Sessions -> Streams]
  BY DEF ChatInv, ChatTypes
<1>2. streams'[s] = x /\ \A r \in Sessions : r # s => streams'[r] = streams[r]
  BY <1>1
<1>3. ChatTypes'
  BY <1>1 DEF ChatInv, ChatTypes, GoodChat
<1>4. streams[s].last \in Nat /\ StreamStands(s) /\ ReadsItsDeltas(s)
  BY <1>1 DEF ChatInv, Streams
<1>5. ASSUME NEW r \in Sessions, r # s
      PROVE  StreamStands(r)' /\ ReadsItsDeltas(r)' /\ DoneIsOver(r)'
  <2>1. StreamStands(r) /\ ReadsItsDeltas(r) /\ DoneIsOver(r) /\ streams'[r] = streams[r]
    BY <1>2, <1>5 DEF ChatInv
  <2>2. StreamStands(r)'
    BY <2>1 DEF StreamStands
  <2>3. Trims(Held(chat', r), Held(chat, r)) /\ (Quiet(chat, r) => Quiet(chat', r))
    BY <1>5
  <2>4. ReadsItsDeltas(r)'
    BY <2>1, <2>3 DEF ReadsItsDeltas, Trims
  <2>5. DoneIsOver(r)'
    BY <2>1, <2>3 DEF DoneIsOver
  <2> QED
    BY <2>2, <2>4, <2>5
<1>6. StreamStands(s)'
  BY <1>2, <1>4 DEF StreamStands
<1>7. \A y : y \in Deltas(x) <=> y \in Deltas(streams[s]) \/ (y = x.last /\ x.script[x.last] = "delta")
  BY <1>4 DEF Deltas
<1>8. \A y \in Deltas(x) : y \in Nat /\ y <= x.last /\ (y \in Deltas(streams[s]) => y < x.last)
  BY <1>4 DEF Deltas
<1>9. Held(chat', s) \subseteq Deltas(x)
  BY <1>4, <1>7 DEF ReadsItsDeltas, Trims
<1>10. ASSUME faults.remounts = 0, NEW a \in Held(chat', s), NEW b \in Deltas(x), a <= b
       PROVE  b \in Held(chat', s)
  <2>1. CASE b = x.last /\ x.script[x.last] = "delta"
    BY <2>1
  <2>2. CASE b \in Deltas(streams[s])
    <3>1. a \in Deltas(x) /\ b < x.last
      BY <1>8, <1>9, <1>10, <2>2
    <3>2. a # x.last /\ a \in H
      BY <1>8, <1>10, <3>1
    <3>3. b \in Held(chat, s)
      BY <1>4, <1>10, <2>2, <3>2 DEF ReadsItsDeltas, Trims
    <3>4. b \in H
      BY <1>10, <3>2, <3>3 DEF Trims
    <3> QED
      BY <3>4
  <2> QED
    BY <1>7, <2>1, <2>2
<1>11. ReadsItsDeltas(s)'
  BY <1>2, <1>9, <1>10 DEF ReadsItsDeltas, Trims
<1>12. DoneIsOver(s)'
  BY <1>2 DEF DoneIsOver
<1> QED
  BY <1>3, <1>5, <1>6, <1>11, <1>12 DEF ChatInv

\* The handle of the scene is closed, if there is one.
LEMMA HandleIsClosed ==
  ASSUME ChatInv, NEW freed,
         freed = IF scene.handle = None THEN streams ELSE [streams EXCEPT ![scene.handle] = Closed(@)]
  PROVE  /\ freed \in [Sessions -> Streams]
         /\ \A s \in Sessions :
              /\ freed[s].last = streams[s].last /\ freed[s].script = streams[s].script
              /\ streams[s].phase = "over" => freed[s].phase = "over"
              /\ streams[s].phase = "none" => freed[s] = streams[s]
              /\ streams[s].phase # "none" => freed[s].phase # "none"
<1>1. streams \in [Sessions -> Streams] /\ scene.handle \in Sessions \union {None}
  BY DEF ChatInv, ChatTypes
<1>2. CASE scene.handle = None
  BY <1>1, <1>2
<1>3. CASE scene.handle # None
  <2>1. scene.handle \in Sessions /\ streams[scene.handle] \in Streams /\ streams[scene.handle].phase # "none"
    BY <1>1, <1>3 DEF ChatInv, StreamStands
  <2>2. /\ freed = [streams EXCEPT ![scene.handle] = Closed(streams[scene.handle])]
        /\ Closed(streams[scene.handle]) \in Streams
    BY <1>3, <2>1, ClosedStream
  <2>3. freed \in [Sessions -> Streams] /\ freed[scene.handle] = Closed(streams[scene.handle])
        /\ \A s \in Sessions : s # scene.handle => freed[s] = streams[s]
    BY <1>1, <2>1, <2>2
  <2> QED
    BY <2>1, <2>3, ClosedStream
<1> QED
  BY <1>2, <1>3

LEMMA ReleasedFollows ==
  ASSUME NEW c, GoodChat(c), NEW h \in Sessions
  PROVE  Follows(c, Released(c, h))
BY ActiveFollows, SameChatFollows DEF Released

LEMMA DeliverEventKeeps ==
  ASSUME ChatInv, NEW s \in Sessions, DeliverEvent(s)
  PROVE  ChatInv'
<1> DEFINE st == streams[s]
           n == st.last + 1
           seen == [st EXCEPT !.last = n]
           kind == st.script[n]
           seeded == Seed(chat, s)
<1>1. /\ st \in Streams /\ st.last \in Nat /\ n \in Nat /\ GoodChat(chat) /\ ReadsItsDeltas(s)
      /\ st.phase = "open" /\ st.last < Len(st.script) /\ st.script \in Seq(Kinds)
      /\ scene' = scene /\ faults' = faults
  BY DEF ChatInv, ChatTypes, DeliverEvent, Streams
<1>2. kind \in Kinds
  BY <1>1
<1>3. seen \in Streams /\ seen.last = n /\ seen.script = st.script /\ seen.phase = "open"
  BY <1>1 DEF Streams
<1>4. /\ GoodChat(seeded)
      /\ \A r \in Sessions : /\ Trims(Held(seeded, r), Held(chat, r))
                             /\ r # s => (Quiet(chat, r) => Quiet(seeded, r))
  BY <1>1, SeedKeeps
<1>5. Follows(chat, System(chat))
  BY <1>1, SystemFollows
<1>6. CASE kind = "started"
  <2>1. chat' = seeded /\ streams' = [streams EXCEPT ![s] = seen]
    BY <1>6 DEF DeliverEvent
  <2> HIDE DEF seeded, seen
  <2> QED
    BY <1>1, <1>3, <1>4, <1>6, <2>1, HeardKeeps
<1>7. CASE kind = "delta"
  <2>1. chat' = AppendDelta(seeded, s, n) /\ streams' = [streams EXCEPT ![s] = seen]
    BY <1>7 DEF DeliverEvent
  <2>2. \A x \in Held(seeded, s) : x < n
    <3>1. \A x \in Held(seeded, s) : x \in Deltas(st)
      BY <1>1, <1>4 DEF Trims, ReadsItsDeltas
    <3> QED
      BY <1>1, <3>1 DEF Deltas
  <2> HIDE DEF seeded, seen
  <2>3. /\ GoodChat(chat')
        /\ \A x : x \in Held(chat', s) <=> x \in Held(seeded, s) \/ x = n
        /\ \A r \in Sessions : r # s => /\ Held(chat', r) = Held(seeded, r)
                                        /\ Quiet(seeded, r) => Quiet(chat', r)
    BY <1>1, <1>4, <2>1, <2>2, DeltaKeeps
  <2> QED
    BY <1>1, <1>3, <1>4, <1>7, <2>1, <2>3, HeardKeeps
<1>8. CASE kind = "tool_call"
  <2>1. chat' = System(chat) /\ streams' = [streams EXCEPT ![s] = seen]
    BY <1>8 DEF DeliverEvent
  <2> HIDE DEF seen
  <2> QED
    BY <1>1, <1>3, <1>5, <1>8, <2>1, HeardKeeps DEF Follows
<1>9. CASE kind = "done"
  <2>1. chat' = System(FinishStream(chat, s)) /\ streams' = [streams EXCEPT ![s] = HandleClose(seen, FALSE)]
    BY <1>9 DEF DeliverEvent
  <2>2. Follows(chat, FinishStream(chat, s)) /\ Quiet(FinishStream(chat, s), s)
    BY <1>1, FinishFollows
  <2>3. Follows(FinishStream(chat, s), chat')
    BY <2>1, <2>2, SystemFollows DEF Follows
  <2>4. Follows(chat, chat') /\ Quiet(chat', s)
    BY <2>2, <2>3, FollowsTwice DEF Follows
  <2> HIDE DEF seen
  <2>5. /\ HandleClose(seen, FALSE) \in Streams /\ HandleClose(seen, FALSE).last = n
        /\ HandleClose(seen, FALSE).script = st.script /\ HandleClose(seen, FALSE).phase = "over"
    BY <1>3, LostStream
  <2> QED
    BY <1>1, <1>9, <2>1, <2>4, <2>5, HeardKeeps DEF Follows
<1>10. CASE kind = "errored"
  <2>1. chat' = System(System(chat)) /\ streams' = [streams EXCEPT ![s] = HandleClose(seen, TRUE)]
    BY <1>10 DEF DeliverEvent
  <2>2. Follows(chat, chat')
    BY <1>5, <2>1, SystemFollows, FollowsTwice DEF Follows
  <2> HIDE DEF seen
  <2>3. /\ HandleClose(seen, TRUE) \in Streams /\ HandleClose(seen, TRUE).last = n
        /\ HandleClose(seen, TRUE).script = st.script /\ HandleClose(seen, TRUE).phase # "none"
    BY <1>3, LostStream
  <2> QED
    BY <1>1, <1>10, <2>1, <2>2, <2>3, HeardKeeps DEF Follows
<1>11. CASE kind = "stream_truncated"
  <2>1. chat' = System(chat) /\ streams' = [streams EXCEPT ![s] = HandleClose(seen, FALSE)]
    BY <1>11 DEF DeliverEvent
  <2> HIDE DEF seen
  <2>2. /\ HandleClose(seen, FALSE) \in Streams /\ HandleClose(seen, FALSE).last = n
        /\ HandleClose(seen, FALSE).script = st.script /\ HandleClose(seen, FALSE).phase # "none"
    BY <1>3, LostStream
  <2> QED
    BY <1>1, <1>5, <1>11, <2>1, <2>2, HeardKeeps DEF Follows
<1> QED
  BY <1>2, <1>6, <1>7, <1>8, <1>9, <1>10, <1>11 DEF Kinds

LEMMA BuilderCreatedKeeps ==
  ASSUME ChatInv, NEW s \in Sessions, BuilderCreated(s)
  PROVE  ChatInv'
<1> DEFINE freed == IF scene.handle = None THEN streams
                    ELSE [streams EXCEPT ![scene.handle] = Closed(@)]
<1>1. PICK script \in Scripts :
        streams' = [freed EXCEPT ![s] = [NoStream EXCEPT !.phase = "minting", !.script = script]]
  BY DEF BuilderCreated
<1> DEFINE x == [NoStream EXCEPT !.phase = "minting", !.script = script]
<1>2. x \in Streams /\ x.last = 0 /\ x.phase = "minting" /\ Len(x.script) \in Nat
  <2>1. NoStream \in Streams /\ NoStream.last = 0
    BY DEF NoStream, Streams
  <2>2. script \in Seq(Kinds)
    BY ChatAssumption
  <2>3. Len(script) \in Nat
    BY <2>2
  <2>4. x.last = 0 /\ x.phase = "minting" /\ x.script = script
    BY <2>1 DEF Streams
  <2>5. x \in Streams
    BY <2>1, <2>2 DEF Streams
  <2> QED
    BY <2>3, <2>4, <2>5
<1>3. /\ freed \in [Sessions -> Streams]
      /\ \A r \in Sessions :
           /\ freed[r].last = streams[r].last /\ freed[r].script = streams[r].script
           /\ streams[r].phase = "over" => freed[r].phase = "over"
           /\ streams[r].phase = "none" => freed[r] = streams[r]
           /\ streams[r].phase # "none" => freed[r].phase # "none"
  BY HandleIsClosed
<1> HIDE DEF freed, x
<1>4. /\ streams' \in [Sessions -> Streams] /\ streams'[s] = x
      /\ \A r \in Sessions : r # s => streams'[r] = freed[r]
  BY <1>1, <1>2, <1>3 DEF x
<1>5. /\ s \in scene.creating /\ scene' = [scene EXCEPT !.creating = @ \ {s}, !.handle = s]
      /\ chat' = [chat EXCEPT !.active = s] /\ faults' = faults
      /\ GoodChat(chat) /\ ChatTypes
  BY DEF BuilderCreated, ChatInv
<1>6. Follows(chat, chat')
  BY <1>5, ActiveFollows
<1>7. scene'.creating = scene.creating \ {s} /\ scene'.handle = s
  BY <1>5 DEF ChatTypes
<1>8. ChatTypes'
  BY <1>4, <1>5, <1>6 DEF ChatTypes, Follows, GoodChat
<1>9. ASSUME NEW r \in Sessions, r # s
      PROVE  StreamStands(r)' /\ ReadsItsDeltas(r)' /\ DoneIsOver(r)'
  <2>1. StreamStands(r) /\ ReadsItsDeltas(r) /\ DoneIsOver(r) /\ streams'[r] = freed[r]
    BY <1>4, <1>9 DEF ChatInv
  <2>2. Trims(Held(chat', r), Held(chat, r)) /\ (Quiet(chat, r) => Quiet(chat', r))
    BY <1>6 DEF Follows
  <2>3. StreamStands(r)'
    BY <1>3, <1>7, <1>9, <2>1 DEF StreamStands
  <2>4. Deltas(streams[r]) = Deltas(streams'[r])
    BY <1>3, <2>1 DEF Deltas
  <2>5. ReadsItsDeltas(r)'
    BY <1>5, <2>1, <2>2, <2>4 DEF ReadsItsDeltas, Trims
  <2>6. DoneIsOver(r)'
    BY <1>3, <2>1, <2>2 DEF DoneIsOver
  <2> QED
    BY <2>3, <2>5, <2>6
<1>10. Held(chat', s) = {}
  <2>1. streams[s].last = 0
    BY <1>5 DEF ChatInv, StreamStands, NoStream
  <2>2. Deltas(streams[s]) = {}
    BY <2>1 DEF Deltas
  <2>3. Held(chat', s) \subseteq Held(chat, s) /\ Held(chat, s) \subseteq Deltas(streams[s])
    BY <1>6 DEF Follows, Trims, ChatInv, ReadsItsDeltas
  <2> QED
    BY <2>2, <2>3
<1>11. StreamStands(s)' /\ ReadsItsDeltas(s)' /\ DoneIsOver(s)'
  BY <1>2, <1>4, <1>7, <1>10 DEF StreamStands, ReadsItsDeltas, DoneIsOver, Trims
<1> QED
  BY <1>6, <1>8, <1>9, <1>11 DEF ChatInv, Follows

LEMMA RemountKeeps ==
  ASSUME ChatInv, Remount
  PROVE  ChatInv'
<1> DEFINE freed == IF scene.handle = None THEN streams
                    ELSE [streams EXCEPT ![scene.handle] = Closed(@)]
           c == IF scene.handle = None THEN chat ELSE Released(chat, scene.handle)
<1>1. /\ streams' = freed /\ chat' = [c EXCEPT !.msgs = c.stored]
      /\ scene' = [scene EXCEPT !.handle = None] /\ faults' = [faults EXCEPT !.remounts = @ + 1]
      /\ GoodChat(chat) /\ ChatTypes
  BY DEF Remount, ChatInv
<1>2. /\ freed \in [Sessions -> Streams]
      /\ \A s \in Sessions :
           /\ freed[s].last = streams[s].last /\ freed[s].script = streams[s].script
           /\ streams[s].phase = "over" => freed[s].phase = "over"
           /\ streams[s].phase = "none" => freed[s] = streams[s]
           /\ streams[s].phase # "none" => freed[s].phase # "none"
  BY HandleIsClosed
<1>3. Follows(chat, c)
  BY <1>1, ReleasedFollows, SameChatFollows DEF ChatTypes
<1> HIDE DEF freed, c
<1>4. /\ GoodChat(chat')
      /\ \A s \in Sessions : Held(chat', s) \subseteq Held(c, s) /\ (Quiet(c, s) => Quiet(chat', s))
  BY <1>1, <1>3, StoredKeeps DEF Follows
<1>5. scene'.creating = scene.creating /\ scene'.handle = None /\ faults'.remounts # 0
  BY <1>1 DEF ChatTypes
<1>6. ChatTypes'
  BY <1>1, <1>2, <1>4 DEF ChatTypes, GoodChat
<1>7. ASSUME NEW s \in Sessions
      PROVE  StreamStands(s)' /\ ReadsItsDeltas(s)' /\ DoneIsOver(s)'
  <2>1. StreamStands(s) /\ ReadsItsDeltas(s) /\ DoneIsOver(s) /\ streams'[s] = freed[s] /\ s # None
    BY <1>1, ChatAssumption DEF ChatInv
  <2>2. Held(chat', s) \subseteq Held(chat, s) /\ (Quiet(chat, s) => Quiet(chat', s))
    BY <1>3, <1>4 DEF Follows, Trims
  <2>3. StreamStands(s)'
    BY <1>2, <1>5, <2>1 DEF StreamStands
  <2>4. Deltas(streams[s]) = Deltas(streams'[s])
    BY <1>2, <2>1 DEF Deltas
  <2>5. ReadsItsDeltas(s)'
    BY <1>5, <2>1, <2>2, <2>4 DEF ReadsItsDeltas
  <2>6. DoneIsOver(s)'
    BY <1>2, <2>1, <2>2 DEF DoneIsOver
  <2> QED
    BY <2>3, <2>5, <2>6
<1> QED
  BY <1>4, <1>6, <1>7 DEF ChatInv

LEMMA ChatInvStep == ChatInv /\ [ChatNext]_chatVars => ChatInv'
<1> SUFFICES ASSUME ChatInv, [ChatNext]_chatVars PROVE ChatInv'
  OBVIOUS
<1>1. GoodChat(chat) /\ ChatTypes /\ Follows(chat, chat) /\ Follows(chat, System(chat))
  BY SameChatFollows, SystemFollows DEF ChatInv
<1>2. /\ streams \in [Sessions -> Streams]
      /\ faults \in [drops : Nat, remounts : Nat, commands : Nat]
      /\ [faults EXCEPT !.drops = @ + 1] \in [drops : Nat, remounts : Nat, commands : Nat]
      /\ [faults EXCEPT !.drops = @ + 1].remounts = faults.remounts
      /\ [faults EXCEPT !.commands = @ + 1] \in [drops : Nat, remounts : Nat, commands : Nat]
      /\ [faults EXCEPT !.commands = @ + 1].remounts = faults.remounts
  BY <1>1 DEF ChatTypes
<1>3. ASSUME NEW s \in Sessions, MintTicket(s) PROVE ChatInv'
  <2> DEFINE x == [streams[s] EXCEPT !.phase = "connecting"]
  <2>1. /\ streams' = [streams EXCEPT ![s] = x] /\ x \in Streams /\ x.last = streams[s].last
        /\ x.script = streams[s].script /\ x.phase = "connecting"
    BY <1>2, <1>3 DEF MintTicket, Streams
  <2> HIDE DEF x
  <2> QED
    BY <1>1, <1>2, <1>3, <2>1, StreamGoesOn DEF MintTicket
<1>4. ASSUME NEW s \in Sessions, MintFails(s) PROVE ChatInv'
  <2> DEFINE phase == IF streams[s].retry >= MAX_RETRIES THEN "over" ELSE "waiting"
             x == [streams[s] EXCEPT !.phase = phase]
  <2>1. streams' = [streams EXCEPT ![s] = x]
    BY <1>4 DEF MintFails
  <2>3. phase \in {"over", "waiting"}
    OBVIOUS
  <2> HIDE DEF phase
  <2>2. /\ x \in Streams /\ x.last = streams[s].last
        /\ x.script = streams[s].script /\ x.phase # "none"
    BY <1>2, <2>3 DEF Streams
  <2>4. Follows(chat, chat')
    BY <1>1, <1>4 DEF MintFails
  <2> HIDE DEF x
  <2> QED
    BY <1>2, <1>4, <2>1, <2>2, <2>4, StreamGoesOn DEF MintFails
<1>5. ASSUME NEW s \in Sessions, ReconnectTimer(s) PROVE ChatInv'
  <2> DEFINE phase == IF streams[s].closed THEN "over" ELSE "minting"
             retry == streams[s].retry + 1
             x == [streams[s] EXCEPT !.phase = phase, !.retry = retry]
  <2>1. streams' = [streams EXCEPT ![s] = x]
    BY <1>2, <1>5 DEF ReconnectTimer
  <2>3. phase \in {"over", "minting"} /\ retry \in Nat /\ streams[s] \in Streams
    BY <1>2 DEF Streams
  <2> HIDE DEF phase, retry
  <2>2. /\ x \in Streams /\ x.last = streams[s].last
        /\ x.script = streams[s].script /\ x.phase # "none"
    BY <2>3 DEF Streams
  <2> HIDE DEF x
  <2> QED
    BY <1>1, <1>2, <1>5, <2>1, <2>2, StreamGoesOn DEF ReconnectTimer
<1>6. ASSUME NEW s \in Sessions, StreamOpens(s) PROVE ChatInv'
  <2> DEFINE x == [streams[s] EXCEPT !.phase = "open", !.retry = 0]
  <2>1. streams' = [streams EXCEPT ![s] = x]
    BY <1>2, <1>6 DEF StreamOpens
  <2>2. /\ x \in Streams /\ x.last = streams[s].last
        /\ x.script = streams[s].script /\ x.phase # "none"
    BY <1>2 DEF Streams
  <2> HIDE DEF x
  <2> QED
    BY <1>1, <1>2, <1>6, <2>1, <2>2, StreamGoesOn DEF StreamOpens
<1>7. ASSUME NEW s \in Sessions, ConnectionLost(s) PROVE ChatInv'
  <2> DEFINE x == HandleClose(streams[s], TRUE)
  <2>1. streams' = [streams EXCEPT ![s] = x]
    BY <1>7 DEF ConnectionLost
  <2>2. x \in Streams /\ x.last = streams[s].last /\ x.script = streams[s].script /\ x.phase # "none"
    BY <1>2, LostStream
  <2>3. Follows(chat, chat')
    BY <1>1, <1>7 DEF ConnectionLost
  <2> HIDE DEF x
  <2> QED
    BY <1>2, <1>7, <2>1, <2>2, <2>3, StreamGoesOn DEF ConnectionLost
<1>8. ASSUME NEW s \in Sessions, BuilderCommand(s) PROVE ChatInv'
  <2>1. /\ scene'.creating = scene.creating \union {s} /\ scene'.handle = scene.handle
        /\ chat' = System(chat) /\ streams' = streams /\ faults' = faults /\ ChatTypes'
    BY <1>1, <1>8 DEF BuilderCommand, ChatTypes, Follows, GoodChat
  <2>2. \A r \in Sessions : r \in scene'.creating => streams[r].phase = "none"
    BY <1>8, <2>1 DEF BuilderCommand, ChatInv, StreamStands
  <2> QED
    BY <1>1, <2>1, <2>2, NothingHeardKeeps DEF ChatInv, StreamStands
<1>9. ASSUME NEW s \in Sessions, BuilderFails(s) PROVE ChatInv'
  <2>1. /\ scene'.creating = scene.creating \ {s} /\ scene'.handle = scene.handle
        /\ chat' = System(chat) /\ streams' = streams /\ faults' = faults /\ ChatTypes'
    BY <1>1, <1>9 DEF BuilderFails, ChatTypes, Follows, GoodChat
  <2> QED
    BY <1>1, <2>1, NothingHeardKeeps DEF ChatInv, StreamStands
<1>10. CASE CancelCommand
  <2>1. /\ scene'.creating = scene.creating /\ scene'.handle = scene.handle /\ Follows(chat, chat')
        /\ streams' = streams /\ faults' = faults
    BY <1>1, <1>10 DEF CancelCommand, ChatTypes
  <2>2. ChatTypes'
    BY <1>1, <1>10, <2>1 DEF CancelCommand, ChatTypes, Follows, GoodChat, Chats
  <2> QED
    BY <2>1, <2>2, NothingHeardKeeps DEF ChatInv, StreamStands
<1>11. CASE CancelAnswered
  <2> DEFINE freed == IF scene.handle = None THEN streams
                      ELSE [streams EXCEPT ![scene.handle] = Closed(@)]
             released == IF scene.handle = None THEN chat ELSE Released(chat, scene.handle)
             finished == FinishStream(released, scene.cancelling)
             idle == [finished EXCEPT !.active = None]
  <2>1. /\ streams' = freed /\ chat' = System(idle) /\ scene.cancelling \in Sessions
        /\ scene' = [scene EXCEPT !.cancelling = None, !.handle = None] /\ faults' = faults
    BY <1>1, <1>11 DEF CancelAnswered, ChatTypes
  <2>2. Follows(chat, released)
    BY <1>1, ReleasedFollows DEF ChatTypes
  <2>3. Follows(released, finished)
    BY <2>1, <2>2, FinishFollows DEF Follows
  <2>4. Follows(finished, idle)
    BY <2>3, ActiveFollows DEF Follows
  <2>5. Follows(idle, chat')
    BY <2>1, <2>4, SystemFollows DEF Follows
  <2> HIDE DEF released, finished, idle
  <2>6. Follows(chat, chat')
    BY <2>2, <2>3, <2>4, <2>5, FollowsTwice
  <2>7. /\ freed \in [Sessions -> Streams]
        /\ \A s \in Sessions :
             /\ freed[s].last = streams[s].last /\ freed[s].script = streams[s].script
             /\ streams[s].phase = "over" => freed[s].phase = "over"
             /\ streams[s].phase = "none" => freed[s] = streams[s]
             /\ streams[s].phase # "none" => freed[s].phase # "none"
    BY HandleIsClosed
  <2> HIDE DEF freed
  <2>8. scene'.creating = scene.creating /\ scene'.handle = None /\ None \notin Sessions
    BY <1>1, <2>1, ChatAssumption DEF ChatTypes
  <2>9. ChatTypes'
    BY <1>1, <2>1, <2>6, <2>7 DEF ChatTypes, Follows, GoodChat
  <2> QED
    BY <2>1, <2>6, <2>7, <2>8, <2>9, NothingHeardKeeps DEF ChatInv, StreamStands
<1>16. CASE LocalCommand
  <2>1. /\ chat' = System(chat) /\ streams' = streams /\ scene' = scene
        /\ faults' = [faults EXCEPT !.commands = @ + 1]
    BY <1>16 DEF LocalCommand
  <2>2. ChatTypes'
    BY <1>1, <1>2, <2>1 DEF ChatTypes, Follows, GoodChat
  <2> QED
    BY <1>1, <1>2, <2>1, <2>2, NothingHeardKeeps DEF ChatInv, StreamStands
<1>12. CASE ClearCommand
  <2>1. /\ chat' = System(ClearMessages(chat)) /\ streams' = streams /\ scene' = scene
        /\ faults' = [faults EXCEPT !.commands = @ + 1]
    BY <1>12 DEF ClearCommand
  <2>2. Follows(chat, ClearMessages(chat))
    BY <1>1, ClearFollows
  <2>3. Follows(chat, chat')
    BY <2>1, <2>2, SystemFollows, FollowsTwice DEF Follows
  <2>4. ChatTypes'
    BY <1>1, <1>2, <2>1, <2>3 DEF ChatTypes, Follows, GoodChat
  <2> QED
    BY <1>2, <2>1, <2>3, <2>4, NothingHeardKeeps DEF ChatInv, StreamStands
<1>13. CASE Remount
  BY <1>13, RemountKeeps
<1>14. ASSUME NEW k \in Nat, TypewriterDrain(k) PROVE ChatInv'
  <2>1. chat' = Typed(chat, k) /\ streams' = streams /\ scene' = scene /\ faults' = faults
    BY <1>14 DEF TypewriterDrain
  <2>2. Follows(chat, chat')
    BY <1>1, <2>1, TypedFollows
  <2>3. ChatTypes'
    BY <1>1, <2>1, <2>2 DEF ChatTypes, Follows, GoodChat
  <2> QED
    BY <2>1, <2>2, <2>3, NothingHeardKeeps DEF ChatInv, StreamStands
<1>15. CASE UNCHANGED chatVars
  <2>1. ChatTypes'
    BY <1>1, <1>15 DEF ChatTypes, chatVars
  <2> QED
    BY <1>1, <1>15, <2>1, NothingHeardKeeps DEF ChatInv, StreamStands, chatVars
<1> QED
  BY <1>3, <1>4, <1>5, <1>6, <1>7, <1>8, <1>9, <1>10, <1>11, <1>12, <1>13, <1>14, <1>15, <1>16,
     DeliverEventKeeps, BuilderCreatedKeeps DEF ChatNext

\* No more messages than the cap, on the screen; a stream that waits for its timer
\* has a try left.
WithinCap(c) == Len(c.msgs) <= MESSAGES_CAP
RetriesLeft(st) == st.retry <= MAX_RETRIES /\ (st.phase = "waiting" => st.retry < MAX_RETRIES)

ChatBounds == WithinCap(chat) /\ \A s \in Sessions : RetriesLeft(streams[s])

LEMMA CappedWithin ==
  ASSUME NEW ms \in Seq(ChatMessages)
  PROVE  Len(Capped(ms)) <= MESSAGES_CAP
BY ChatAssumption DEF Capped

\* A message posted, by the system or as the seed of a stream.
LEMMA SystemWithin ==
  ASSUME NEW c, GoodChat(c)
  PROVE  WithinCap(System(c))
<1> DEFINE m == [sess |-> None, text |-> <<>>, streaming |-> FALSE]
           ms == Append(c.msgs, m)
<1>1. c \in Chats /\ m \in ChatMessages
  BY DEF GoodChat, ChatMessages
<1>2. c.msgs \in Seq(ChatMessages)
  BY <1>1 DEF Chats
<1>3. ms \in Seq(ChatMessages)
  <2> HIDE DEF m
  <2> QED BY <1>1, <1>2, AppendProperties
<1>4. System(c).msgs = Capped(ms)
  BY <1>1 DEF System, Post, Chats
<1> HIDE DEF ms
<1> QED BY <1>3, <1>4, CappedWithin DEF WithinCap

LEMMA SeedWithin ==
  ASSUME NEW c, GoodChat(c), WithinCap(c), NEW s \in Sessions
  PROVE  WithinCap(Seed(c, s))
<1> DEFINE m == [sess |-> s, text |-> <<>>, streaming |-> TRUE]
           ms == Append(c.msgs, m)
<1>1. c \in Chats /\ m \in ChatMessages
  BY DEF GoodChat, ChatMessages
<1>2. c.msgs \in Seq(ChatMessages)
  BY <1>1 DEF Chats
<1>3. ms \in Seq(ChatMessages)
  <2> HIDE DEF m
  <2> QED BY <1>1, <1>2, AppendProperties
<1>4. Seed(c, s) = c \/ Seed(c, s).msgs = Capped(ms)
  BY <1>1 DEF Seed, Post, Chats
<1> HIDE DEF ms
<1> QED BY <1>3, <1>4, CappedWithin DEF WithinCap

LEMMA MapLength ==
  ASSUME NEW ms \in Seq(ChatMessages), NEW ns, DOMAIN ns = DOMAIN ms, ns = [i \in DOMAIN ms |-> ns[i]]
  PROVE  Len(ns) = Len(ms)
<1>1. Len(ms) \in Nat /\ DOMAIN ms = 1..Len(ms)
  BY LenProperties
<1>2. ns = [i \in 1..Len(ms) |-> ns[i]]
  BY <1>1
<1> QED BY <1>1, <1>2

LEMMA FinishWithin ==
  ASSUME NEW c, GoodChat(c), WithinCap(c), NEW s \in Sessions
  PROVE  WithinCap(FinishStream(c, s))
<1>1. c \in Chats /\ c.msgs \in Seq(ChatMessages) /\ c.buffer[s] \in Seq(Nat)
  BY DEF GoodChat, Chats, Buffers
<1>2. CASE StreamingAt(c, s) = {} /\ c.buffer[s] # <<>>
  <2> DEFINE m == [sess |-> s, text |-> c.buffer[s], streaming |-> FALSE]
             ms == Append(c.msgs, m)
  <2>1. m \in ChatMessages
    BY <1>1 DEF ChatMessages
  <2>2. FinishStream(c, s).msgs = Capped(ms)
    BY <1>1, <1>2 DEF FinishStream, Chats
  <2> HIDE DEF m
  <2>3. ms \in Seq(ChatMessages)
    BY <1>1, <2>1, AppendProperties
  <2> HIDE DEF ms
  <2> QED BY <2>2, <2>3, CappedWithin DEF WithinCap
<1>3. CASE ~(StreamingAt(c, s) = {} /\ c.buffer[s] # <<>>)
  <2> DEFINE ns == Ended(c, s)
  <2>1. FinishStream(c, s).msgs = Capped(ns)
    BY <1>1, <1>3 DEF FinishStream, Chats
  <2>2. DOMAIN ns = DOMAIN c.msgs /\ ns = [i \in DOMAIN c.msgs |-> ns[i]]
    BY DEF Ended
  <2> HIDE DEF ns
  <2>3. Len(ns) = Len(c.msgs)
    BY <1>1, <2>2, MapLength
  <2>4. Capped(ns) = ns
    BY <2>3 DEF Capped, WithinCap
  <2> QED BY <2>1, <2>3, <2>4 DEF WithinCap
<1> QED BY <1>2, <1>3

LEMMA TypedWithin ==
  ASSUME NEW c, GoodChat(c), WithinCap(c), NEW k \in Nat
  PROVE  WithinCap(Typed(c, k))
<1> DEFINE ns == Typed(c, k).msgs
<1>1. c \in Chats /\ c.msgs \in Seq(ChatMessages)
  BY DEF GoodChat, Chats
<1>2. DOMAIN ns = DOMAIN c.msgs /\ ns = [i \in DOMAIN c.msgs |-> ns[i]]
  BY <1>1 DEF Typed, Chats
<1> HIDE DEF ns
<1>3. Len(ns) = Len(c.msgs)
  BY <1>1, <1>2, MapLength
<1> QED BY <1>3 DEF WithinCap, ns

LEMMA ClosedLeft ==
  ASSUME NEW st \in Streams, RetriesLeft(st)
  PROVE  RetriesLeft(Closed(st)) /\ \A again \in BOOLEAN : RetriesLeft(HandleClose(st, again))
<1>1. MAX_RETRIES \in Nat /\ st.retry \in Nat
  BY ChatAssumption DEF Streams
<1>2. RetriesLeft(Closed(st))
  BY DEF Closed, RetriesLeft, Streams
<1>3. ASSUME NEW again \in BOOLEAN PROVE RetriesLeft(HandleClose(st, again))
  BY <1>1 DEF HandleClose, RetriesLeft, Streams
<1> QED BY <1>2, <1>3

LEMMA ChatBoundsInit == ChatInit => ChatBounds
<1>1. MESSAGES_CAP \in Nat /\ MAX_RETRIES \in Nat
  BY ChatAssumption
<1> QED BY <1>1 DEF ChatInit, ChatBounds, WithinCap, RetriesLeft, NoStream

\* The stream of the handle is closed, or there is none.
LEMMA HandleClosedLeft ==
  ASSUME ChatInv, ChatBounds
  PROVE  LET freed == IF scene.handle = None THEN streams ELSE [streams EXCEPT ![scene.handle] = Closed(@)]
         IN \A s \in Sessions : RetriesLeft(freed[s])
<1>1. streams \in [Sessions -> Streams] /\ \A s \in Sessions : RetriesLeft(streams[s])
  BY DEF ChatInv, ChatTypes, ChatBounds
<1>2. \A s \in Sessions : RetriesLeft(Closed(streams[s]))
  BY <1>1, ClosedLeft
<1> QED BY <1>1, <1>2

LEMMA ChatBoundsStep == ChatInv /\ ChatBounds /\ [ChatNext]_chatVars => ChatBounds'
<1> SUFFICES ASSUME ChatInv, ChatBounds, [ChatNext]_chatVars PROVE ChatBounds'
  OBVIOUS
<1>1. /\ GoodChat(chat) /\ WithinCap(chat) /\ WithinCap(System(chat)) /\ chat \in Chats
      /\ streams \in [Sessions -> Streams] /\ scene.cancelling \in Sessions \union {None}
      /\ scene.handle \in Sessions \union {None}
      /\ \A s \in Sessions : streams[s] \in Streams /\ RetriesLeft(streams[s])
  BY SystemWithin DEF ChatInv, ChatBounds, ChatTypes, GoodChat
<1>2. MAX_RETRIES \in Nat /\ \A s \in Sessions : streams[s].retry \in Nat
  BY <1>1, ChatAssumption DEF Streams
<1>3. ASSUME NEW s \in Sessions, NEW st, RetriesLeft(st), streams' = [streams EXCEPT ![s] = st]
      PROVE  \A r \in Sessions : RetriesLeft(streams'[r])
  BY <1>1, <1>3
<1>4. ASSUME NEW s \in Sessions, MintTicket(s) PROVE ChatBounds'
  <2> DEFINE x == [streams[s] EXCEPT !.phase = "connecting"]
  <2>1. streams' = [streams EXCEPT ![s] = x] /\ chat' = chat /\ RetriesLeft(x)
    BY <1>1, <1>4 DEF MintTicket, Streams, RetriesLeft
  <2> HIDE DEF x
  <2> QED BY <1>1, <1>3, <2>1 DEF ChatBounds
<1>5. ASSUME NEW s \in Sessions, MintFails(s) PROVE ChatBounds'
  <2> DEFINE x == [streams[s] EXCEPT !.phase = IF streams[s].retry >= MAX_RETRIES THEN "over" ELSE "waiting"]
  <2>1. streams' = [streams EXCEPT ![s] = x] /\ WithinCap(chat')
    BY <1>1, <1>5 DEF MintFails
  <2>2. RetriesLeft(x)
    BY <1>1, <1>2 DEF RetriesLeft, Streams
  <2> HIDE DEF x
  <2> QED BY <1>3, <2>1, <2>2 DEF ChatBounds
<1>6. ASSUME NEW s \in Sessions, ReconnectTimer(s) PROVE ChatBounds'
  <2> DEFINE phase == IF streams[s].closed THEN "over" ELSE "minting"
             x == [streams[s] EXCEPT !.phase = phase, !.retry = @ + 1]
  <2>1. streams' = [streams EXCEPT ![s] = x] /\ chat' = chat
    BY <1>1, <1>6 DEF ReconnectTimer
  <2>2. streams[s].retry < MAX_RETRIES /\ phase # "waiting"
    BY <1>1, <1>6 DEF ReconnectTimer, RetriesLeft
  <2> HIDE DEF phase
  <2>3. RetriesLeft(x)
    BY <1>1, <1>2, <2>2 DEF RetriesLeft, Streams
  <2> HIDE DEF x
  <2> QED BY <1>1, <1>3, <2>1, <2>3 DEF ChatBounds
<1>7. ASSUME NEW s \in Sessions, StreamOpens(s) PROVE ChatBounds'
  <2> DEFINE x == [streams[s] EXCEPT !.phase = "open", !.retry = 0]
  <2>1. streams' = [streams EXCEPT ![s] = x] /\ chat' = chat
    BY <1>1, <1>7 DEF StreamOpens
  <2>2. RetriesLeft(x)
    BY <1>1, <1>2 DEF RetriesLeft, Streams
  <2> HIDE DEF x
  <2> QED BY <1>1, <1>3, <2>1, <2>2 DEF ChatBounds
<1>8. ASSUME NEW s \in Sessions, DeliverEvent(s) PROVE ChatBounds'
  <2> DEFINE n == streams[s].last + 1
             seen == [streams[s] EXCEPT !.last = n]
             kind == streams[s].script[n]
  <2>1. seen \in Streams /\ RetriesLeft(seen)
    <3>1. streams[s] \in Streams /\ RetriesLeft(streams[s]) /\ n \in Nat
      BY <1>1 DEF Streams
    <3> HIDE DEF n
    <3> QED BY <3>1 DEF Streams, RetriesLeft
  <2>2. WithinCap(chat')
    <3>1. GoodChat(Seed(chat, s)) /\ WithinCap(Seed(chat, s))
      BY <1>1, SeedKeeps, SeedWithin
    <3>2. AppendDelta(Seed(chat, s), s, n).msgs = Seed(chat, s).msgs
      BY <3>1 DEF AppendDelta, GoodChat, Chats
    <3>3. GoodChat(FinishStream(chat, s)) /\ GoodChat(System(chat))
      BY <1>1, FinishFollows, SystemFollows DEF Follows
    <3>4. WithinCap(System(FinishStream(chat, s))) /\ WithinCap(System(System(chat)))
      BY <3>3, SystemWithin
    <3>5. kind \in Kinds
      <4>1. streams[s].script \in Seq(Kinds) /\ streams[s].last \in Nat
            /\ streams[s].last < Len(streams[s].script)
        BY <1>1, <1>8 DEF DeliverEvent, Streams
      <4>2. n \in 1..Len(streams[s].script)
        BY <4>1, LenProperties
      <4> QED BY <4>1, <4>2, ElementOfSeq
    <3>6. chat' = CASE kind = "started" -> Seed(chat, s)
                    [] kind = "delta" -> AppendDelta(Seed(chat, s), s, n)
                    [] kind = "tool_call" -> System(chat)
                    [] kind = "done" -> System(FinishStream(chat, s))
                    [] kind = "errored" -> System(System(chat))
                    [] kind = "stream_truncated" -> System(chat)
      BY <1>8 DEF DeliverEvent
    <3> HIDE DEF kind, n
    <3> QED BY <1>1, <3>1, <3>2, <3>4, <3>5, <3>6 DEF WithinCap, Kinds
  <2>3. streams' = [streams EXCEPT ![s] =
                CASE kind \in {"done", "stream_truncated"} -> HandleClose(seen, FALSE)
                  [] kind = "errored" -> HandleClose(seen, TRUE)
                  [] OTHER -> seen]
    BY <1>8 DEF DeliverEvent
  <2> HIDE DEF kind, seen
  <2>4. PICK x : RetriesLeft(x) /\ streams' = [streams EXCEPT ![s] = x]
    <3>1. RetriesLeft(HandleClose(seen, TRUE)) /\ RetriesLeft(HandleClose(seen, FALSE))
      BY <2>1, ClosedLeft
    <3>2. CASE kind \in {"done", "stream_truncated"}
      BY <2>3, <3>1, <3>2
    <3>3. CASE kind = "errored"
      BY <2>3, <3>1, <3>3
    <3>4. CASE kind \notin {"done", "stream_truncated", "errored"}
      BY <2>1, <2>3, <3>4
    <3> QED BY <3>2, <3>3, <3>4
  <2> QED BY <1>3, <2>2, <2>4 DEF ChatBounds
<1>9. ASSUME NEW s \in Sessions, ConnectionLost(s) PROVE ChatBounds'
  <2> DEFINE x == HandleClose(streams[s], TRUE)
  <2>1. streams' = [streams EXCEPT ![s] = x] /\ WithinCap(chat')
    BY <1>1, <1>9 DEF ConnectionLost
  <2>2. RetriesLeft(x)
    BY <1>1, ClosedLeft
  <2> HIDE DEF x
  <2> QED BY <1>3, <2>1, <2>2 DEF ChatBounds
<1>10. ASSUME NEW s \in Sessions, BuilderCommand(s) \/ BuilderFails(s) PROVE ChatBounds'
  BY <1>1, <1>10 DEF BuilderCommand, BuilderFails, ChatBounds
<1>11. ASSUME NEW s \in Sessions, BuilderCreated(s) PROVE ChatBounds'
  <2> DEFINE freed == IF scene.handle = None THEN streams
                      ELSE [streams EXCEPT ![scene.handle] = Closed(@)]
  <2>1. PICK script \in Scripts :
          streams' = [freed EXCEPT ![s] = [NoStream EXCEPT !.phase = "minting", !.script = script]]
    BY <1>11 DEF BuilderCreated
  <2> DEFINE x == [NoStream EXCEPT !.phase = "minting", !.script = script]
  <2>2. RetriesLeft(x)
    BY <1>2 DEF NoStream, RetriesLeft
  <2>3. \A r \in Sessions : RetriesLeft(freed[r])
    BY HandleClosedLeft
  <2>4. DOMAIN freed = Sessions
    BY <1>1
  <2>5. chat'.msgs = chat.msgs
    BY <1>1, <1>11 DEF BuilderCreated, Chats
  <2> HIDE DEF freed, x
  <2>6. \A r \in Sessions : RetriesLeft(streams'[r])
    BY <2>1, <2>2, <2>3, <2>4 DEF x
  <2> QED BY <1>1, <2>5, <2>6 DEF ChatBounds, WithinCap
<1>12. CASE CancelCommand
  BY <1>1, <1>12 DEF CancelCommand, ChatBounds
<1>13. CASE CancelAnswered
  <2> DEFINE freed == IF scene.handle = None THEN streams
                      ELSE [streams EXCEPT ![scene.handle] = Closed(@)]
             released == IF scene.handle = None THEN chat ELSE Released(chat, scene.handle)
             finished == FinishStream(released, scene.cancelling)
             idle == [finished EXCEPT !.active = None]
  <2>1. streams' = freed /\ chat' = System(idle) /\ scene.cancelling \in Sessions
    BY <1>1, <1>13 DEF CancelAnswered
  <2>2. GoodChat(released)
    BY <1>1, ReleasedFollows DEF Follows, ChatTypes, ChatInv
  <2>3. GoodChat(finished)
    BY <2>1, <2>2, FinishFollows DEF Follows
  <2>4. GoodChat(idle)
    BY <2>3, ActiveFollows DEF Follows
  <2> HIDE DEF released, finished, idle
  <2>5. WithinCap(chat')
    BY <2>1, <2>4, SystemWithin
  <2>6. \A r \in Sessions : RetriesLeft(freed[r])
    BY HandleClosedLeft
  <2> HIDE DEF freed
  <2> QED BY <2>1, <2>5, <2>6 DEF ChatBounds
<1>14. CASE LocalCommand
  BY <1>1, <1>14 DEF LocalCommand, ChatBounds
<1>15. CASE ClearCommand
  <2>1. GoodChat(ClearMessages(chat))
    BY <1>1, ClearFollows DEF Follows
  <2> QED BY <1>15, <2>1, SystemWithin DEF ClearCommand, ChatBounds
<1>16. CASE Remount
  <2> DEFINE freed == IF scene.handle = None THEN streams
                      ELSE [streams EXCEPT ![scene.handle] = Closed(@)]
             released == IF scene.handle = None THEN chat ELSE Released(chat, scene.handle)
  <2>1. streams' = freed /\ chat' = [released EXCEPT !.msgs = released.stored]
    BY <1>16 DEF Remount
  <2>2. released.stored = chat.stored /\ released \in Chats
    BY <1>1 DEF Released, Chats
  <2>3. Len(chat.stored) = Len(chat.msgs)
    BY <1>1 DEF GoodChat, SavedAlike
  <2> HIDE DEF released
  <2>4. chat'.msgs = chat.stored
    BY <2>1, <2>2 DEF Chats
  <2>5. \A r \in Sessions : RetriesLeft(freed[r])
    BY HandleClosedLeft
  <2> HIDE DEF freed
  <2> QED BY <1>1, <2>1, <2>3, <2>4, <2>5 DEF ChatBounds, WithinCap
<1>17. ASSUME NEW k \in Nat, TypewriterDrain(k) PROVE ChatBounds'
  BY <1>1, <1>17, TypedWithin DEF TypewriterDrain, ChatBounds
<1>18. CASE UNCHANGED chatVars
  BY <1>18 DEF chatVars, ChatBounds
<1> QED
  BY <1>4, <1>5, <1>6, <1>7, <1>8, <1>9, <1>10, <1>11, <1>12, <1>13, <1>14, <1>15, <1>16, <1>17, <1>18
     DEF ChatNext

LEMMA ChatTyped == ChatInv /\ ChatBounds => ChatTypeOK
<1> SUFFICES ASSUME ChatInv, ChatBounds PROVE ChatTypeOK
  OBVIOUS
<1>1. ChatTypes /\ MAX_RETRIES \in Nat /\ Len(chat.msgs) <= MESSAGES_CAP
  BY ChatAssumption DEF ChatInv, ChatBounds, WithinCap
<1>2. ASSUME NEW s \in Sessions
      PROVE  /\ streams[s].phase \in {"none", "minting", "connecting", "open", "waiting", "over"}
             /\ streams[s].retry <= MAX_RETRIES + 1 /\ streams[s].last <= Len(streams[s].script)
  <2>1. streams[s] \in Streams /\ RetriesLeft(streams[s]) /\ StreamStands(s)
    BY <1>1 DEF ChatInv, ChatBounds, ChatTypes
  <2> QED BY <1>1, <2>1 DEF Streams, RetriesLeft, StreamStands
<1> QED BY <1>1, <1>2 DEF ChatTypeOK, ChatTypes, Chats

\* The deltas of a session are read in the order they were sent, none twice and none missing
\* between two others unless the scene was built again, and nothing types on once "done" was
\* seen: for any sessions, scripts, retries and cap, whatever drops, clears and ticks come
\* between (BuilderStreamConsumer, chatStore, TypewriterEffect).
THEOREM AnswerIsReadOnce == ChatSpec => []AnswerReadOnce
<1>1. ChatInv /\ ChatBounds => AnswerReadOnce
  <2> SUFFICES ASSUME ChatInv, ChatBounds PROVE DeltasReadInOrder /\ DoneIsFinal
    BY ChatTyped DEF AnswerReadOnce
  <2>1. ASSUME NEW s \in Sessions
        PROVE  /\ InOrder(chat.msgs, chat.buffer[s], s) /\ ReadsItsDeltas(s) /\ DoneIsOver(s)
               /\ streams[s].last \in Nat /\ Held(chat, s) = Read(chat.msgs, chat.buffer[s], s)
    BY DEF ChatInv, GoodChat, Readable, Held, ChatTypes, Streams
  <2>2. ASSUME NEW s \in Sessions, faults.remounts = 0, NEW a \in Held(chat, s), NEW b \in Held(chat, s),
               NEW n \in a .. b, streams[s].script[n] = "delta"
        PROVE  n \in Held(chat, s)
    <3>1. a \in Deltas(streams[s]) /\ b \in Deltas(streams[s])
      BY <2>1, <2>2 DEF ReadsItsDeltas
    <3>2. n \in Deltas(streams[s]) /\ a <= n
      BY <2>1, <2>2, <3>1 DEF Deltas
    <3> QED
      BY <2>1, <2>2, <3>2 DEF ReadsItsDeltas, Trims
  <2>3. DeltasReadInOrder
    BY <2>1, <2>2 DEF DeltasReadInOrder
  <2>4. DoneIsFinal
    BY <2>1, SilentIs DEF DoneIsFinal, DoneIsOver, Quiet
  <2> QED
    BY <2>3, <2>4
<1> QED
  BY <1>1, ChatInvInit, ChatInvStep, ChatBoundsInit, ChatBoundsStep, PTL DEF ChatSpec

-----------------------------------------------------------------------------
(* Ways out of a scene: where the player stands, and how far a scene is on *)
(* its way to another.                                                     *)

Places == DOMAIN Interiors

\* No gate of the world w is within reach of p.
Clear(p, w) == \A g \in ToSet(Gates[w]) : ~Near(p, g.at, GATE_RADIUS)

\* Where a gate of a world can be reached from: the gates, the spot beside the road's first, and
\* the alley's way out.
AtGate(w) ==
  CASE w = "CaravanRoad" -> {<<36, 480>>, <<96, 480>>, <<1372, 480>>}
    [] w = "CyberpunkShanghai" -> {<<36, 240>>, <<1390, 200>>, <<820, 100>>, <<700, 700>>,
                                   <<820, 480>>, <<704, 700>>}
    [] OTHER -> Int \X Int

\* A way from one scene to another: the spawn it names is one from which the gates of its world
\* are known, and clear of them when it is a gate.
Ways ==
  {e \in [dest : Worlds \union Places, spawn : Int \X Int, via : {"gate", "dual", "ambient", "exit"},
          loading : BOOLEAN] :
     e.dest \in Worlds => /\ e.via = "gate" => Clear(e.spawn, e.dest)
                          /\ Clear(e.spawn, e.dest) \/ e.spawn \in AtGate(e.dest)}

Names == {"marketplace_stall", "builder_workshop", "registry_pillar", "trust_shrine", "temple_arch",
          "wayhouse_interior", "forest_crossroad", "mountain_pass",
          "cyber_marketplace", "bank_treasury", "admin_hall", "protocol_gateway"}

WorldRecords ==
  [scene : Worlds \union Places \union {"Loading", "several"}, pos : Int \X Int,
   arrived : {"", "gate", "dual", "ambient", "exit"}, key : {"up", "pressed", "held"},
   polls : PollsSeen, prompt : {"", "marketplace_stall", "trust_shrine"}, choice : {0, 1},
   cool : SUBSET Names, busy : BOOLEAN, latched : SUBSET (Int \X Int), fade : Seq(Ways), next : Seq(Ways)]

\* In a scene left by a gate that has no flag of its own, the gates in reach are those that fired.
LeavingByGate(w) ==
  /\ w.pos \in AtGate(w.scene)
  /\ \A g \in ToSet(Gates[w.scene]) : Near(w.pos, g.at, GATE_RADIUS) => g.at \in w.latched

\* Where the player stands, and how far the scene is on its way to another.
Stands(w) ==
  w.scene \in Worlds => /\ w.arrived = "gate" => Clear(w.pos, w.scene)
                        /\ Clear(w.pos, w.scene) \/ w.pos \in AtGate(w.scene)
Leaves(w) ==
  /\ w.scene = "Loading" => w.next # <<>>
  /\ w.scene # "ApolloVillage" => Len(w.fade) <= 1 /\ w.prompt = ""
  /\ w.scene \in Places \union {"Loading"} /\ w.fade # <<>> => w.busy
  /\ w.scene = "CaravanRoad" /\ w.fade # <<>> => w.busy \/ LeavingByGate(w)
  /\ w.scene = "CyberpunkShanghai" /\ w.fade # <<>> => LeavingByGate(w)

GoodWorld(w) == w \in WorldRecords /\ Stands(w) /\ Leaves(w)
WorldInv == GoodWorld(world)

LEMMA SceneNames ==
  /\ Worlds = {"ApolloVillage", "CaravanRoad", "CyberpunkShanghai"}
  /\ Places = {"ApolloMarketplaceBazaar", "ApolloOasis", "ApolloTempleInterior", "CaravanWayhouseInterior",
               "CaravanForestCrossroad", "CaravanMountainPass", "CyberSkyscraperLobby", "CyberRooftop",
               "CyberUndergroundAlley", "CyberServerRoom"}
BY DEF Worlds, Gates, Places, Interiors

LEMMA GatesAre ==
  /\ ToSet(Gates.ApolloVillage) = {VillageGates[1]}
  /\ ToSet(Gates.CaravanRoad) = {RoadGates[1], RoadGates[2]}
  /\ ToSet(Gates.CyberpunkShanghai) = {ShanghaiGates[1], ShanghaiGates[2], ShanghaiGates[3],
                                       ShanghaiGates[4], ShanghaiGates[5]}
<1>1. /\ Gates.ApolloVillage = VillageGates /\ Gates.CaravanRoad = RoadGates
      /\ Gates.CyberpunkShanghai = ShanghaiGates
  BY DEF Gates
<1>2. DOMAIN VillageGates = {1}
  BY DEF VillageGates
<1>3. DOMAIN RoadGates = {1, 2}
  BY DEF RoadGates
<1>4. DOMAIN ShanghaiGates = {1, 2, 3, 4, 5}
  BY DEF ShanghaiGates
<1> QED
  BY <1>1, <1>2, <1>3, <1>4 DEF ToSet

\* The gates of each world, by their places and where they lead.
LEMMA GatesAt ==
  /\ VillageGates[1].at = <<1372, 480>>
  /\ RoadGates[1].at = <<36, 480>> /\ RoadGates[2].at = <<1372, 480>>
  /\ ShanghaiGates[1].at = <<36, 240>> /\ ShanghaiGates[2].at = <<1390, 200>>
  /\ ShanghaiGates[3].at = <<820, 100>> /\ ShanghaiGates[4].at = <<700, 700>>
  /\ ShanghaiGates[5].at = <<820, 480>>
<1>2. VillageGates[1].at = <<1372, 480>>
  BY DEF VillageGates, Gate
<1>3. RoadGates[1].at = <<36, 480>> /\ RoadGates[2].at = <<1372, 480>>
  BY DEF RoadGates, Gate
<1>4. /\ ShanghaiGates[1].at = <<36, 240>> /\ ShanghaiGates[2].at = <<1390, 200>>
      /\ ShanghaiGates[3].at = <<820, 100>> /\ ShanghaiGates[4].at = <<700, 700>>
      /\ ShanghaiGates[5].at = <<820, 480>>
  BY DEF ShanghaiGates, Gate
<1> QED
  BY <1>2, <1>3, <1>4

LEMMA ClearIs ==
  ASSUME NEW p
  PROVE  /\ Clear(p, "ApolloVillage") <=> ~Near(p, <<1372, 480>>, 96)
         /\ Clear(p, "CaravanRoad") <=> ~Near(p, <<36, 480>>, 96) /\ ~Near(p, <<1372, 480>>, 96)
         /\ Clear(p, "CyberpunkShanghai") <=>
              /\ ~Near(p, <<36, 240>>, 96) /\ ~Near(p, <<1390, 200>>, 96) /\ ~Near(p, <<820, 100>>, 96)
              /\ ~Near(p, <<700, 700>>, 96) /\ ~Near(p, <<820, 480>>, 96)
<1>1. Clear(p, "ApolloVillage") <=> ~Near(p, VillageGates[1].at, 96)
  BY GatesAre DEF Clear, GATE_RADIUS
<1>2. Clear(p, "CaravanRoad") <=> ~Near(p, RoadGates[1].at, 96) /\ ~Near(p, RoadGates[2].at, 96)
  BY GatesAre DEF Clear, GATE_RADIUS
<1>3. Clear(p, "CyberpunkShanghai") <=>
        /\ ~Near(p, ShanghaiGates[1].at, 96) /\ ~Near(p, ShanghaiGates[2].at, 96)
        /\ ~Near(p, ShanghaiGates[3].at, 96) /\ ~Near(p, ShanghaiGates[4].at, 96)
        /\ ~Near(p, ShanghaiGates[5].at, 96)
  BY GatesAre DEF Clear, GATE_RADIUS
<1> QED
  BY <1>1, <1>2, <1>3, GatesAt


\* The ways out.

LEMMA GatesLead == \A w \in Worlds : \A g \in ToSet(Gates[w]) : g.to \in Ways
<1>1. /\ Clear(<<160, 480>>, "CaravanRoad") /\ Clear(<<1180, 480>>, "CaravanRoad")
      /\ Clear(<<1180, 480>>, "ApolloVillage") /\ Clear(<<160, 640>>, "CyberpunkShanghai")
  BY ClearIs DEF Near
<1>2. VillageGates[1].to \in Ways
  <2>1. VillageGates[1].to = [dest |-> "CaravanRoad", spawn |-> <<160, 480>>,
                              via |-> "gate", loading |-> TRUE]
    BY DEF VillageGates, Gate
  <2> QED
    BY <1>1, <2>1, SceneNames DEF Ways
<1>3. RoadGates[1].to \in Ways
  <2>1. RoadGates[1].to = [dest |-> "ApolloVillage", spawn |-> <<1180, 480>>,
                           via |-> "gate", loading |-> TRUE]
    BY ZenonT(30) DEF RoadGates, Gate
  <2> QED
    BY <1>1, <2>1, SceneNames DEF Ways
<1>4. RoadGates[2].to \in Ways
  <2>1. RoadGates[2].to = [dest |-> "CyberpunkShanghai", spawn |-> <<160, 640>>,
                           via |-> "gate", loading |-> TRUE]
    BY DEF RoadGates, Gate
  <2> QED
    BY <1>1, <2>1, SceneNames DEF Ways
<1>5. ShanghaiGates[1].to \in Ways
  <2>1. ShanghaiGates[1].to = [dest |-> "CaravanRoad", spawn |-> <<1180, 480>>,
                               via |-> "gate", loading |-> TRUE]
    BY ZenonT(30) DEF ShanghaiGates, Gate
  <2> QED
    BY <1>1, <2>1, SceneNames DEF Ways
<1>6. ShanghaiGates[2].to \in Ways
  <2>1. ShanghaiGates[2].to = [dest |-> "CyberSkyscraperLobby", spawn |-> <<704, 720>>,
                               via |-> "gate", loading |-> TRUE]
    BY DEF ShanghaiGates, Gate
  <2> QED
    BY <2>1, SceneNames DEF Ways
<1>7. ShanghaiGates[3].to \in Ways
  <2>1. ShanghaiGates[3].to = [dest |-> "CyberRooftop", spawn |-> <<300, 720>>,
                               via |-> "gate", loading |-> TRUE]
    BY DEF ShanghaiGates, Gate
  <2> QED
    BY <2>1, SceneNames DEF Ways
<1>8. ShanghaiGates[4].to \in Ways
  <2>1. ShanghaiGates[4].to = [dest |-> "CyberUndergroundAlley", spawn |-> <<704, 720>>,
                               via |-> "gate", loading |-> TRUE]
    BY DEF ShanghaiGates, Gate
  <2> QED
    BY <2>1, SceneNames DEF Ways
<1>9. ShanghaiGates[5].to \in Ways
  <2>1. ShanghaiGates[5].to = [dest |-> "CyberServerRoom", spawn |-> <<704, 720>>,
                               via |-> "gate", loading |-> FALSE]
    BY DEF ShanghaiGates, Gate
  <2> QED
    BY <2>1, SceneNames DEF Ways
<1> QED
  BY <1>2, <1>3, <1>4, <1>5, <1>6, <1>7, <1>8, <1>9, GatesAre, SceneNames

LEMMA ExitsLead == \A s \in Places : Interiors[s].to \in Ways
<1>1. \A e \in {<<440, 530>>, <<1180, 480>>, <<1180, 460>>} : Clear(e, "CaravanRoad")
  BY ClearIs DEF Near
<1>2. \A e \in {<<130, 530>>, <<700, 320>>, <<1260, 700>>} : Clear(e, "CyberpunkShanghai")
  BY ClearIs DEF Near
<1>3. <<704, 700>> \in AtGate("CyberpunkShanghai") /\ AtGate("ApolloVillage") = Int \X Int
  BY DEF AtGate
<1>4. ASSUME NEW at, NEW dest \in Worlds, NEW entry \in Int \X Int,
             Clear(entry, dest) \/ entry \in AtGate(dest)
      PROVE  Exit(at, dest, entry).to \in Ways
  BY <1>4 DEF Ways, Exit
<1>5. /\ ApolloMarketplaceBazaar.to \in Ways /\ ApolloOasis.to \in Ways /\ ApolloTempleInterior.to \in Ways
  BY <1>3, <1>4, SceneNames DEF ApolloMarketplaceBazaar, ApolloOasis, ApolloTempleInterior
<1>6. /\ CaravanWayhouseInterior.to \in Ways /\ CaravanForestCrossroad.to \in Ways
      /\ CaravanMountainPass.to \in Ways
  BY <1>1, <1>4, SceneNames, SMTT(30)
     DEF CaravanWayhouseInterior, CaravanForestCrossroad, CaravanMountainPass
<1>7. /\ CyberSkyscraperLobby.to \in Ways /\ CyberRooftop.to \in Ways
      /\ CyberUndergroundAlley.to \in Ways /\ CyberServerRoom.to \in Ways
  BY <1>2, <1>3, <1>4, SceneNames
     DEF CyberSkyscraperLobby, CyberRooftop, CyberUndergroundAlley, CyberServerRoom, Exit
<1> QED
  BY <1>5, <1>6, <1>7, SceneNames DEF Interiors

\* The places of the village and of the road that are entered, and their names.
LEMMA LandmarksLead ==
  /\ \A i \in DOMAIN VillageLandmarks :
       VillageLandmarks[i].kind # "ui" => VillageLandmarks[i].to \in Ways
  /\ \A i \in DOMAIN RoadPlaces : RoadPlaces[i].to \in Ways
<1>1. DOMAIN VillageLandmarks = 1..5 /\ DOMAIN RoadPlaces = 1..3
  BY DEF VillageLandmarks, RoadPlaces
<1>2. VillageLandmarks[2].kind = "ui" /\ VillageLandmarks[3].kind = "ui"
  BY DEF VillageLandmarks, Landmark
<1>3. RoadPlaces[1].to \in Ways
  <2>1. RoadPlaces[1].to = [dest |-> "CaravanWayhouseInterior", spawn |-> <<704, 720>>,
                            via |-> "ambient", loading |-> FALSE]
    BY ZenonT(30) DEF RoadPlaces, Landmark
  <2> QED
    BY <2>1, SceneNames DEF Ways
<1>4. RoadPlaces[2].to \in Ways
  <2>1. RoadPlaces[2].to = [dest |-> "CaravanForestCrossroad", spawn |-> <<704, 720>>,
                            via |-> "ambient", loading |-> FALSE]
    BY DEF RoadPlaces, Landmark
  <2> QED
    BY <2>1, SceneNames DEF Ways
<1>5. RoadPlaces[3].to \in Ways
  <2>1. RoadPlaces[3].to = [dest |-> "CaravanMountainPass", spawn |-> <<220, 580>>,
                            via |-> "ambient", loading |-> FALSE]
    BY DEF RoadPlaces, Landmark
  <2> QED
    BY <2>1, SceneNames DEF Ways
<1>6. VillageLandmarks[1].to \in Ways
  <2>1. VillageLandmarks[1].to = [dest |-> "ApolloMarketplaceBazaar", spawn |-> <<704, 720>>,
                                  via |-> "dual", loading |-> FALSE]
    BY DEF VillageLandmarks, Landmark
  <2> QED
    BY <2>1, SceneNames DEF Ways
<1>7. VillageLandmarks[4].to \in Ways
  <2>1. VillageLandmarks[4].to = [dest |-> "ApolloOasis", spawn |-> <<704, 720>>,
                                  via |-> "dual", loading |-> FALSE]
    BY DEF VillageLandmarks, Landmark
  <2> QED
    BY <2>1, SceneNames DEF Ways
<1>8. VillageLandmarks[5].to \in Ways
  <2>1. VillageLandmarks[5].to = [dest |-> "ApolloTempleInterior", spawn |-> <<704, 720>>,
                                  via |-> "ambient", loading |-> FALSE]
    BY DEF VillageLandmarks, Landmark
  <2> QED
    BY <2>1, SceneNames DEF Ways
<1> QED
  BY <1>1, <1>2, <1>3, <1>4, <1>5, <1>6, <1>7, <1>8

\* Where the player may stand in the road and in the city.
LEMMA RoadSpots ==
  Spots("CaravanRoad") =
    {<<96, 480>>} \union {<<36, 480>>, <<1372, 480>>} \union {<<440, 480>>, <<1280, 380>>, <<660, 580>>}
<1>1. DefaultSpawn.CaravanRoad = <<96, 480>> /\ Landmarks.CaravanRoad = RoadPlaces
  BY DEF DefaultSpawn, Landmarks
<1>2. DOMAIN RoadPlaces = {1, 2, 3}
  BY DEF RoadPlaces
<1>3. /\ RoadPlaces[1].at = <<440, 480>> /\ RoadPlaces[2].at = <<1280, 380>>
      /\ RoadPlaces[3].at = <<660, 580>>
  BY DEF RoadPlaces, Landmark
<1>4. {l.at : l \in ToSet(RoadPlaces)} = {<<440, 480>>, <<1280, 380>>, <<660, 580>>}
  BY <1>2, <1>3 DEF ToSet
<1>5. {g.at : g \in ToSet(Gates.CaravanRoad)} = {<<36, 480>>, <<1372, 480>>}
  <2>1. {g.at : g \in ToSet(Gates.CaravanRoad)} = {RoadGates[1].at, RoadGates[2].at}
    BY GatesAre
  <2> QED
    BY <2>1, GatesAt
<1>6. Spots("CaravanRoad") = {DefaultSpawn.CaravanRoad} \union {g.at : g \in ToSet(Gates.CaravanRoad)}
                               \union {l.at : l \in ToSet(Landmarks.CaravanRoad)}
  BY SceneNames DEF Spots
<1> QED
  BY <1>1, <1>4, <1>5, <1>6

LEMMA ShanghaiSpots ==
  Spots("CyberpunkShanghai") =
    {<<160, 640>>}
      \union {<<36, 240>>, <<1390, 200>>, <<820, 100>>, <<700, 700>>, <<820, 480>>}
      \union {<<1180, 460>>, <<130, 480>>, <<1260, 760>>, <<320, 720>>}
<1>1. DefaultSpawn.CyberpunkShanghai = <<160, 640>> /\ Landmarks.CyberpunkShanghai = ShanghaiLandmarks
  BY DEF DefaultSpawn, Landmarks
<1>2. DOMAIN ShanghaiLandmarks = {1, 2, 3, 4}
  BY DEF ShanghaiLandmarks
<1>3. /\ ShanghaiLandmarks[1].at = <<1180, 460>> /\ ShanghaiLandmarks[2].at = <<130, 480>>
      /\ ShanghaiLandmarks[3].at = <<1260, 760>> /\ ShanghaiLandmarks[4].at = <<320, 720>>
  BY DEF ShanghaiLandmarks, Landmark
<1>4. {l.at : l \in ToSet(ShanghaiLandmarks)} = {<<1180, 460>>, <<130, 480>>, <<1260, 760>>, <<320, 720>>}
  BY <1>2, <1>3 DEF ToSet
<1>5. {g.at : g \in ToSet(Gates.CyberpunkShanghai)} =
        {<<36, 240>>, <<1390, 200>>, <<820, 100>>, <<700, 700>>, <<820, 480>>}
  <2>1. {g.at : g \in ToSet(Gates.CyberpunkShanghai)} =
          {ShanghaiGates[1].at, ShanghaiGates[2].at, ShanghaiGates[3].at, ShanghaiGates[4].at,
           ShanghaiGates[5].at}
    BY GatesAre
  <2> QED
    BY <2>1, GatesAt
<1>6. Spots("CyberpunkShanghai") = {DefaultSpawn.CyberpunkShanghai} \union {g.at : g \in ToSet(Gates.CyberpunkShanghai)}
                               \union {l.at : l \in ToSet(Landmarks.CyberpunkShanghai)}
  BY SceneNames DEF Spots
<1> QED
  BY <1>1, <1>4, <1>5, <1>6

LEMMA VillageSpots == Spots("ApolloVillage") \subseteq Int \X Int
<1>1. DefaultSpawn.ApolloVillage \in Int \X Int /\ Landmarks.ApolloVillage = VillageLandmarks
  BY DEF DefaultSpawn, Landmarks
<1>2. DOMAIN VillageLandmarks = {1, 2, 3, 4, 5}
  BY DEF VillageLandmarks
<1>3. /\ VillageLandmarks[1].at = <<1010, 600>> /\ VillageLandmarks[2].at = <<330, 560>>
      /\ VillageLandmarks[3].at = <<1180, 460>> /\ VillageLandmarks[4].at = <<640, 540>>
      /\ VillageLandmarks[5].at = <<820, 400>>
  BY DEF VillageLandmarks, Landmark
<1>4. {l.at : l \in ToSet(VillageLandmarks)} \subseteq Int \X Int
  BY <1>2, <1>3 DEF ToSet
<1>5. {g.at : g \in ToSet(Gates.ApolloVillage)} \subseteq Int \X Int
  <2>1. VillageGates[1].at \in Int \X Int
    BY GatesAt
  <2> QED
    BY <2>1, GatesAre
<1>6. Spots("ApolloVillage") = {DefaultSpawn.ApolloVillage} \union {g.at : g \in ToSet(Gates.ApolloVillage)}
                               \union {l.at : l \in ToSet(Landmarks.ApolloVillage)}
  BY SceneNames DEF Spots
<1> QED
  BY <1>1, <1>4, <1>5, <1>6

\* Walking while the screen fades: the gates in reach are those that were.
LEMMA RoadWalk ==
  /\ \A p \in Spots("CaravanRoad") : Clear(p, "CaravanRoad") \/ p \in AtGate("CaravanRoad")
  /\ \A q \in AtGate("CaravanRoad") : \A p \in Spots("CaravanRoad") : Near(q, p, 80) =>
       /\ p \in AtGate("CaravanRoad")
       /\ \A a \in {<<36, 480>>, <<1372, 480>>} : Near(p, a, 96) => Near(q, a, 96)
<1>1. \A p \in Spots("CaravanRoad") : Clear(p, "CaravanRoad") \/ p \in AtGate("CaravanRoad")
  BY RoadSpots, ClearIs DEF AtGate, Near
<1>2. \A q \in AtGate("CaravanRoad") : \A p \in Spots("CaravanRoad") :
        Near(q, p, 80) => p \in AtGate("CaravanRoad")
  BY RoadSpots DEF AtGate, Near
<1>3. \A q, p \in AtGate("CaravanRoad") : Near(q, p, 80) =>
        \A a \in {<<36, 480>>, <<1372, 480>>} : Near(p, a, 96) => Near(q, a, 96)
  BY DEF AtGate, Near
<1> QED
  BY <1>1, <1>2, <1>3

LEMMA ShanghaiWalk ==
  /\ \A p \in Spots("CyberpunkShanghai") : Clear(p, "CyberpunkShanghai") \/ p \in AtGate("CyberpunkShanghai")
  /\ \A q \in AtGate("CyberpunkShanghai") : \A p \in Spots("CyberpunkShanghai") : Near(q, p, 80) =>
       /\ p \in AtGate("CyberpunkShanghai")
       /\ \A a \in {<<36, 240>>, <<1390, 200>>, <<820, 100>>, <<700, 700>>, <<820, 480>>} :
            Near(p, a, 96) => Near(q, a, 96)
<1>1. \A p \in Spots("CyberpunkShanghai") :
        Clear(p, "CyberpunkShanghai") \/ p \in AtGate("CyberpunkShanghai")
  BY ShanghaiSpots, ClearIs DEF AtGate, Near
<1>2. \A q \in AtGate("CyberpunkShanghai") : \A p \in Spots("CyberpunkShanghai") :
        Near(q, p, 80) => p \in AtGate("CyberpunkShanghai")
  BY ShanghaiSpots DEF AtGate, Near
<1>3. \A q, p \in AtGate("CyberpunkShanghai") : Near(q, p, 80) =>
        \A a \in {<<36, 240>>, <<1390, 200>>, <<820, 100>>, <<700, 700>>, <<820, 480>>} :
            Near(p, a, 96) => Near(q, a, 96)
  BY DEF AtGate, Near
<1> QED
  BY <1>1, <1>2, <1>3

\* No two gates are in reach at once.
LEMMA OneGateInReach ==
  ASSUME NEW w \in Worlds, NEW p \in AtGate(w), NEW g \in ToSet(Gates[w]), NEW h \in ToSet(Gates[w]),
         Near(p, g.at, GATE_RADIUS), Near(p, h.at, GATE_RADIUS)
  PROVE  g = h
<1>1. CASE w = "ApolloVillage"
  BY <1>1, GatesAre
<1>2. CASE w = "CaravanRoad"
  <2>1. \A q \in AtGate("CaravanRoad") : ~(Near(q, <<36, 480>>, 96) /\ Near(q, <<1372, 480>>, 96))
    BY DEF AtGate, Near
  <2> QED
    BY <1>2, <2>1, GatesAre, GatesAt DEF GATE_RADIUS
<1>3. CASE w = "CyberpunkShanghai"
  <2> DEFINE G == ShanghaiGates
             Apart(i, j) == ~(Near(p, G[i].at, GATE_RADIUS) /\ Near(p, G[j].at, GATE_RADIUS))
  <2>1. /\ Apart(1, 2) /\ Apart(1, 3) /\ Apart(1, 4) /\ Apart(1, 5) /\ Apart(2, 3)
        /\ Apart(2, 4) /\ Apart(2, 5) /\ Apart(3, 4) /\ Apart(3, 5) /\ Apart(4, 5)
    BY <1>3, GatesAt DEF AtGate, Near, GATE_RADIUS
  <2>2. g \in {G[1], G[2], G[3], G[4], G[5]} /\ h \in {G[1], G[2], G[3], G[4], G[5]}
    BY <1>3, GatesAre
  <2> QED
    BY <2>1, <2>2
<1> QED
  BY <1>1, <1>2, <1>3, SceneNames

\* What the gates do that fire, in turn.
LEMMA OneFires ==
  ASSUME NEW w, w.scene \in Worlds, w.pos \in Int \X Int,
         Clear(w.pos, w.scene) \/ w.pos \in AtGate(w.scene)
  PROVE  Firing(w) = {} \/ \E g \in ToSet(Gates[w.scene]) :
                             /\ g.at \notin w.latched /\ Near(w.pos, g.at, GATE_RADIUS)
                             /\ Firing(w) = {g}
                             /\ \A h \in ToSet(Gates[w.scene]) : Near(w.pos, h.at, GATE_RADIUS) => h = g
<1>1. CASE Clear(w.pos, w.scene)
  BY <1>1 DEF Clear, Firing
<1>2. CASE w.pos \in AtGate(w.scene) /\ Firing(w) # {}
  <2>1. PICK g \in Firing(w) : TRUE
    BY <1>2
  <2>2. g \in ToSet(Gates[w.scene]) /\ g.at \notin w.latched /\ Near(w.pos, g.at, GATE_RADIUS)
    BY <2>1 DEF Firing
  <2>3. \A h \in ToSet(Gates[w.scene]) : Near(w.pos, h.at, GATE_RADIUS) => h = g
    BY <1>2, <2>2, OneGateInReach
  <2> QED
    BY <2>1, <2>2, <2>3 DEF Firing
<1> QED
  BY <1>1, <1>2

LEMMA ListOfFew ==
  /\ SetToSeq({}) = <<>>
  /\ \A x : SetToSeq({x}) = <<x>>
<1>1. Cardinality({}) = 0 /\ \A x : Cardinality({x}) = 1
  BY FS_EmptySet, FS_Singleton
<1>2. SetToSeq({}) = <<>>
  <2>1. SetToSeq({}) = CHOOSE f \in [1..0 -> {}] : IsInjective(f)
    BY <1>1 DEF SetToSeq
  <2>2. 1..0 = {}
    OBVIOUS
  <2>3. <<>> \in [1..0 -> {}] /\ IsInjective(<<>>)
    BY <2>2 DEF IsInjective
  <2>4. SetToSeq({}) \in [1..0 -> {}]
    BY <2>1, <2>3
  <2> QED
    BY <2>2, <2>4
<1>3. ASSUME NEW x PROVE SetToSeq({x}) = <<x>>
  <2>1. SetToSeq({x}) = CHOOSE f \in [1..1 -> {x}] : IsInjective(f)
    BY <1>1 DEF SetToSeq
  <2>2. <<x>> \in [1..1 -> {x}] /\ IsInjective(<<x>>)
    BY DEF IsInjective
  <2>3. SetToSeq({x}) \in [1..1 -> {x}]
    BY <2>1, <2>2
  <2>4. \A f \in [1..1 -> {x}] : f = <<x>>
    OBVIOUS
  <2> QED
    BY <2>3, <2>4
<1> QED
  BY <1>2, <1>3

LEMMA GatesStand == \A w \in Worlds : \A g \in ToSet(Gates[w]) : g.at \in Int \X Int
<1>1. VillageGates[1].at \in Int \X Int
  BY GatesAt
<1>2. RoadGates[1].at \in Int \X Int /\ RoadGates[2].at \in Int \X Int
  BY GatesAt
<1>3. ShanghaiGates[1].at \in Int \X Int /\ ShanghaiGates[2].at \in Int \X Int
  BY GatesAt
<1>4. /\ ShanghaiGates[3].at \in Int \X Int /\ ShanghaiGates[4].at \in Int \X Int
      /\ ShanghaiGates[5].at \in Int \X Int
  BY GatesAt
<1> QED
  BY <1>1, <1>2, <1>3, <1>4, GatesAre, SceneNames

\* After the gates were asked, the one in reach has fired.
LEMMA GatesFire ==
  ASSUME NEW w, w = [scene |-> w.scene, pos |-> w.pos, arrived |-> w.arrived, key |-> w.key,
                     polls |-> w.polls, prompt |-> w.prompt, choice |-> w.choice, cool |-> w.cool,
                     busy |-> w.busy, latched |-> w.latched, fade |-> w.fade, next |-> w.next],
         w.scene \in Worlds, w.pos \in Int \X Int, w.latched \in SUBSET (Int \X Int), w.fade \in Seq(Ways),
         Clear(w.pos, w.scene) \/ w.pos \in AtGate(w.scene)
  PROVE  \E latched \in SUBSET (Int \X Int), fade \in Seq(Ways) :
           /\ GateUpdate(w) = [w EXCEPT !.latched = latched, !.fade = fade]
           /\ w.latched \subseteq latched
           /\ \/ fade = w.fade
              \/ /\ Len(fade) = Len(w.fade) + 1 /\ w.pos \in AtGate(w.scene)
                 /\ \A g \in ToSet(Gates[w.scene]) : Near(w.pos, g.at, GATE_RADIUS) => g.at \in latched
                 /\ \E g \in ToSet(Gates[w.scene]) :
                      g.at \notin w.latched /\ Near(w.pos, g.at, GATE_RADIUS)
<1> DEFINE latched == w.latched \union {g.at : g \in Firing(w)}
           fade == w.fade \o SetToSeq({g.to : g \in Firing(w)})
<1>1. GateUpdate(w) = [w EXCEPT !.latched = latched, !.fade = fade]
  BY DEF GateUpdate
<1>2. CASE Firing(w) = {}
  <2>1. {g.to : g \in Firing(w)} = {} /\ {g.at : g \in Firing(w)} = {}
    BY <1>2
  <2>2. latched = w.latched
    BY <2>1
  <2>3. fade = w.fade \o <<>>
    BY <2>1, ListOfFew
  <2> HIDE DEF latched, fade
  <2>4. fade = w.fade
    BY <2>3
  <2> QED
    BY <1>1, <2>2, <2>4
<1>3. CASE Firing(w) # {}
  <2>1. PICK g \in ToSet(Gates[w.scene]) :
               /\ g.at \notin w.latched /\ Near(w.pos, g.at, GATE_RADIUS)
               /\ Firing(w) = {g}
               /\ \A h \in ToSet(Gates[w.scene]) : Near(w.pos, h.at, GATE_RADIUS) => h = g
    BY <1>3, OneFires
  <2>2. {h.to : h \in Firing(w)} = {g.to} /\ {h.at : h \in Firing(w)} = {g.at}
    BY <2>1
  <2>3. latched = w.latched \union {g.at} /\ g.at \in Int \X Int
    BY <2>1, <2>2, GatesStand
  <2>4. fade = w.fade \o <<g.to>>
    BY <2>2, ListOfFew
  <2>5. w.pos \in AtGate(w.scene)
    BY <2>1 DEF Clear
  <2> HIDE DEF latched, fade
  <2>6. fade \in Seq(Ways) /\ Len(fade) = Len(w.fade) + 1
    <3>1. g.to \in Ways
      BY <2>1, GatesLead
    <3> QED
      BY <2>4, <3>1
  <2>7. latched \in SUBSET (Int \X Int) /\ w.latched \subseteq latched
    BY <2>3
  <2>8. \A h \in ToSet(Gates[w.scene]) : Near(w.pos, h.at, GATE_RADIUS) => h.at \in latched
    BY <2>1, <2>3
  <2> QED
    BY <1>1, <2>1, <2>5, <2>6, <2>7, <2>8
<1> QED
  BY <1>2, <1>3

\* A landmark in reach is one of the scene's.
LEMMA FirstIsInReach ==
  ASSUME NEW w, w.scene \in Worlds, NEW radius, InReach(w, radius) # {}
  PROVE  \E i \in DOMAIN Landmarks[w.scene] :
           /\ FirstInReach(w, radius) = Landmarks[w.scene][i]
           /\ Near(w.pos, Landmarks[w.scene][i].at, radius)
<1> DEFINE I == InReach(w, radius)
<1>1. DOMAIN Landmarks[w.scene] \subseteq 1..5
  <2>1. DOMAIN VillageLandmarks = 1..5
    BY DEF VillageLandmarks
  <2>2. DOMAIN RoadPlaces = 1..3
    BY DEF RoadPlaces
  <2>3. DOMAIN ShanghaiLandmarks = 1..4
    BY DEF ShanghaiLandmarks
  <2> QED
    BY <2>1, <2>2, <2>3, SceneNames DEF Landmarks
<1>2. I \subseteq DOMAIN Landmarks[w.scene] /\ \A i \in I : Near(w.pos, Landmarks[w.scene][i].at, radius)
  BY DEF InReach
<1>3. I # {}
  OBVIOUS
<1>4. FirstInReach(w, radius) = Landmarks[w.scene][Min(I)]
  BY DEF FirstInReach
<1> HIDE DEF I
<1>5. \E i \in I : \A j \in I : i <= j
  BY <1>1, <1>2, <1>3
<1>6. Min(I) \in I
  BY <1>5 DEF Min
<1> QED
  BY <1>2, <1>4, <1>6

\* The landmarks by name, kind and way.
LEMMA LandmarksNamed ==
  /\ \A i \in DOMAIN VillageLandmarks :
       /\ VillageLandmarks[i].name \in Names
       /\ VillageLandmarks[i].kind = "dual" => VillageLandmarks[i].name \in {"marketplace_stall", "trust_shrine"}
       /\ VillageLandmarks[i].name \in {"marketplace_stall", "trust_shrine"} => VillageLandmarks[i].kind = "dual"
  /\ \A i \in DOMAIN RoadPlaces : RoadPlaces[i].name \in Names
  /\ \A i \in DOMAIN ShanghaiLandmarks : ShanghaiLandmarks[i].name \in Names
<1>1. /\ DOMAIN VillageLandmarks = 1..5
      /\ VillageLandmarks[1].name = "marketplace_stall" /\ VillageLandmarks[2].name = "builder_workshop"
      /\ VillageLandmarks[3].name = "registry_pillar" /\ VillageLandmarks[4].name = "trust_shrine"
      /\ VillageLandmarks[5].name = "temple_arch"
  <2>1. VillageLandmarks[1].name = "marketplace_stall" /\ VillageLandmarks[2].name = "builder_workshop"
    BY DEF VillageLandmarks, Landmark
  <2>2. VillageLandmarks[3].name = "registry_pillar" /\ VillageLandmarks[4].name = "trust_shrine"
    BY DEF VillageLandmarks, Landmark
  <2>3. DOMAIN VillageLandmarks = 1..5 /\ VillageLandmarks[5].name = "temple_arch"
    BY DEF VillageLandmarks, Landmark
  <2> QED
    BY <2>1, <2>2, <2>3
<1>2. /\ VillageLandmarks[1].kind = "dual" /\ VillageLandmarks[2].kind = "ui"
      /\ VillageLandmarks[3].kind = "ui" /\ VillageLandmarks[4].kind = "dual"
      /\ VillageLandmarks[5].kind = "ambient"
  BY DEF VillageLandmarks, Landmark
<1>3. /\ DOMAIN RoadPlaces = 1..3
      /\ RoadPlaces[1].name = "wayhouse_interior" /\ RoadPlaces[2].name = "forest_crossroad"
      /\ RoadPlaces[3].name = "mountain_pass"
  BY DEF RoadPlaces, Landmark
<1>4. /\ DOMAIN ShanghaiLandmarks = 1..4
      /\ ShanghaiLandmarks[1].name = "cyber_marketplace" /\ ShanghaiLandmarks[2].name = "bank_treasury"
      /\ ShanghaiLandmarks[3].name = "admin_hall" /\ ShanghaiLandmarks[4].name = "protocol_gateway"
  <2>1. ShanghaiLandmarks[1].name = "cyber_marketplace" /\ ShanghaiLandmarks[2].name = "bank_treasury"
    BY DEF ShanghaiLandmarks, Landmark
  <2>2. ShanghaiLandmarks[3].name = "admin_hall" /\ ShanghaiLandmarks[4].name = "protocol_gateway"
    BY DEF ShanghaiLandmarks, Landmark
  <2>3. DOMAIN ShanghaiLandmarks = 1..4
    BY DEF ShanghaiLandmarks
  <2> QED
    BY <2>1, <2>2, <2>3
<1>5. \A i \in DOMAIN VillageLandmarks :
       /\ VillageLandmarks[i].name \in Names
       /\ VillageLandmarks[i].kind = "dual" => VillageLandmarks[i].name \in {"marketplace_stall", "trust_shrine"}
       /\ VillageLandmarks[i].name \in {"marketplace_stall", "trust_shrine"} => VillageLandmarks[i].kind = "dual"
  BY <1>1, <1>2 DEF Names
<1>6. \A i \in DOMAIN RoadPlaces : RoadPlaces[i].name \in Names
  BY <1>3 DEF Names
<1>7. \A i \in DOMAIN ShanghaiLandmarks : ShanghaiLandmarks[i].name \in Names
  BY <1>4 DEF Names
<1> QED
  BY <1>5, <1>6, <1>7

LEMMA NoPlaceByGate ==
  \A q \in AtGate("CaravanRoad") : \A i \in DOMAIN RoadPlaces : ~Near(q, RoadPlaces[i].at, GATE_RADIUS)
<1>1. /\ DOMAIN RoadPlaces = 1..3
      /\ RoadPlaces[1].at = <<440, 480>> /\ RoadPlaces[2].at = <<1280, 380>>
      /\ RoadPlaces[3].at = <<660, 580>>
  BY DEF RoadPlaces, Landmark
<1>2. \A q \in AtGate("CaravanRoad") :
        ~Near(q, <<440, 480>>, 96) /\ ~Near(q, <<1280, 380>>, 96) /\ ~Near(q, <<660, 580>>, 96)
  BY DEF AtGate, Near
<1> QED
  BY <1>1, <1>2 DEF GATE_RADIUS

\* Polling the landmarks, each scene's.

LEMMA Cooled ==
  ASSUME NEW w, GoodWorld(w), NEW name \in Names, NEW v, v = [w EXCEPT !.cool = @ \union {name}]
  PROVE  GoodWorld(v) /\ v.scene = w.scene /\ v.fade = w.fade /\ v.pos = w.pos /\ v.busy = w.busy
<1> DEFINE cool == w.cool \union {name}
<1>1. cool \in SUBSET Names
  BY DEF GoodWorld, WorldRecords
<1>2. v = [w EXCEPT !.cool = cool]
  OBVIOUS
<1> HIDE DEF cool
<1>3. /\ v \in WorldRecords
      /\ v.scene = w.scene /\ v.pos = w.pos /\ v.arrived = w.arrived /\ v.prompt = w.prompt
      /\ v.busy = w.busy /\ v.latched = w.latched /\ v.fade = w.fade /\ v.next = w.next
  BY <1>1, <1>2 DEF GoodWorld, WorldRecords
<1> QED
  BY <1>3 DEF GoodWorld, Stands, Leaves, LeavingByGate

\* The fade gets a callback: in the village, or when none was registered and the scene's flag is set.
Registers(w, v, left, e) == v = [w EXCEPT !.busy = left, !.fade = Append(w.fade, e)]

LEMMA Faded ==
  ASSUME NEW w, GoodWorld(w), NEW e \in Ways, NEW left \in BOOLEAN, NEW v, Registers(w, v, left, e),
         w.scene = "ApolloVillage" \/ (w.fade = <<>> /\ left /\ w.scene # "CyberpunkShanghai")
  PROVE  GoodWorld(v) /\ v.scene = w.scene
<1> DEFINE fade == Append(w.fade, e)
<1>1. w.fade \in Seq(Ways)
  BY DEF GoodWorld, WorldRecords
<1>2. fade \in Seq(Ways) /\ Len(fade) = Len(w.fade) + 1
  BY <1>1
<1>3. v = [w EXCEPT !.busy = left, !.fade = fade]
  BY DEF Registers
<1>4. w.fade = <<>> => Len(fade) = 1
  BY <1>2
<1> HIDE DEF fade
<1>5. /\ v \in WorldRecords
      /\ v.scene = w.scene /\ v.pos = w.pos /\ v.arrived = w.arrived /\ v.prompt = w.prompt
      /\ v.busy = left /\ v.latched = w.latched /\ v.fade = fade /\ v.next = w.next
  BY <1>2, <1>3 DEF GoodWorld, WorldRecords
<1>6. Stands(v)
  BY <1>5 DEF GoodWorld, Stands
<1>7. CASE w.scene = "ApolloVillage"
  BY <1>5, <1>6, <1>7, SceneNames DEF GoodWorld, Leaves
<1>8. CASE w.fade = <<>> /\ left /\ w.scene # "ApolloVillage" /\ w.scene # "CyberpunkShanghai"
  <2>1. Len(fade) = 1
    BY <1>4, <1>8
  <2>2. v.prompt = "" /\ (v.scene = "Loading" => v.next # <<>>)
    BY <1>5, <1>8 DEF GoodWorld, Leaves
  <2>3. v.busy
    BY <1>5, <1>8, Zenon
  <2>4. Len(v.fade) <= 1
    BY <1>5, <2>1
  <2>5. v.scene # "CyberpunkShanghai"
    BY <1>5, <1>8
  <2> QED
    BY <1>5, <1>6, <2>2, <2>3, <2>4, <2>5, Zenon DEF GoodWorld, Leaves
<1> QED
  BY <1>7, <1>8

LEMMA VillageLandmarkKeeps ==
  ASSUME NEW w, GoodWorld(w), w.scene = "ApolloVillage"
  PROVE  GoodWorld(VillageLandmark(w)) /\ VillageLandmark(w).scene = w.scene
<1>1. CASE InReach(w, LANDMARK_INTERACT_RADIUS_PX) = {}
  BY <1>1 DEF VillageLandmark
<1>2. CASE InReach(w, LANDMARK_INTERACT_RADIUS_PX) # {}
  <2> DEFINE l == FirstInReach(w, LANDMARK_INTERACT_RADIUS_PX)
             c == [w EXCEPT !.cool = @ \union {l.name}]
  <2>1. PICK i \in DOMAIN VillageLandmarks : l = VillageLandmarks[i]
    BY <1>2, FirstIsInReach, SceneNames DEF Landmarks
  <2>2. /\ l.name \in Names
        /\ l.kind = "dual" => l.name \in {"marketplace_stall", "trust_shrine"}
        /\ l.kind # "ui" => l.to \in Ways
    BY <2>1, LandmarksNamed, LandmarksLead
  <2>3. VillageLandmark(w) = CASE l.kind = "ambient" -> FadeTo(c, l.to)
                               [] l.kind = "dual" -> [c EXCEPT !.prompt = l.name, !.choice = 0]
                               [] OTHER -> c
    BY <1>2 DEF VillageLandmark
  <2> HIDE DEF l
  <2>4. GoodWorld(c) /\ c.scene = w.scene
    BY <2>2, Cooled
  <2> HIDE DEF c
  <2>5. CASE l.kind = "ambient"
    <3> DEFINE v == VillageLandmark(w)
               e == l.to
               left == c.busy
    <3>1. left \in BOOLEAN /\ v = [c EXCEPT !.fade = Append(c.fade, e)]
      BY <2>3, <2>4, <2>5 DEF FadeTo, GoodWorld, WorldRecords
    <3>2. e \in Ways
      BY <2>2, <2>5
    <3>3. [c EXCEPT !.busy = left] = c
      BY <2>4 DEF GoodWorld, WorldRecords
    <3> HIDE DEF v, e
    <3>4. Registers(c, v, left, e)
      BY <3>1, <3>3 DEF Registers
    <3> HIDE DEF left
    <3>5. GoodWorld(c) /\ c.scene = "ApolloVillage"
      BY <2>4
    <3>6. GoodWorld(v) /\ v.scene = c.scene
      BY <3>1, <3>2, <3>4, <3>5, Faded
    <3> QED
      BY <2>4, <3>6 DEF v
  <2>6. CASE l.kind = "dual"
    <3> DEFINE v == VillageLandmark(w)
    <3>1. v = [c EXCEPT !.prompt = l.name, !.choice = 0]
      BY <2>3, <2>6
    <3> HIDE DEF v
    <3>2. /\ v \in WorldRecords
          /\ v.scene = c.scene /\ v.pos = c.pos /\ v.arrived = c.arrived /\ v.busy = c.busy
          /\ v.latched = c.latched /\ v.fade = c.fade /\ v.next = c.next
      BY <2>2, <2>4, <2>6, <3>1 DEF GoodWorld, WorldRecords
    <3>3. GoodWorld(v) /\ v.scene = w.scene
      BY <2>4, <3>2 DEF GoodWorld, Stands, Leaves
    <3> QED
      BY <3>3 DEF v
  <2>7. CASE l.kind \notin {"ambient", "dual"}
    BY <2>3, <2>4, <2>7
  <2> QED
    BY <2>5, <2>6, <2>7
<1> QED
  BY <1>1, <1>2

LEMMA ShanghaiLandmarkKeeps ==
  ASSUME NEW w, GoodWorld(w), w.scene = "CyberpunkShanghai"
  PROVE  GoodWorld(ShanghaiLandmark(w)) /\ ShanghaiLandmark(w).scene = w.scene
<1>1. CASE InReach(w, LANDMARK_INTERACT_RADIUS_PX) = {}
  BY <1>1 DEF ShanghaiLandmark
<1>2. CASE InReach(w, LANDMARK_INTERACT_RADIUS_PX) # {}
  <2> DEFINE l == FirstInReach(w, LANDMARK_INTERACT_RADIUS_PX)
  <2>1. PICK i \in DOMAIN ShanghaiLandmarks : l = ShanghaiLandmarks[i]
    BY <1>2, FirstIsInReach, SceneNames DEF Landmarks
  <2>2. l.name \in Names
    BY <2>1, LandmarksNamed
  <2>3. ShanghaiLandmark(w) = [w EXCEPT !.cool = @ \union {l.name}]
    BY <1>2 DEF ShanghaiLandmark
  <2> HIDE DEF l
  <2> QED
    BY <2>2, <2>3, Cooled
<1> QED
  BY <1>1, <1>2

LEMMA RoadPlaceKeeps ==
  ASSUME NEW w, GoodWorld(w), w.scene = "CaravanRoad", ~w.busy
  PROVE  GoodWorld(RoadPlace(w)) /\ RoadPlace(w).scene = w.scene
<1>1. CASE InReach(w, GATE_RADIUS) = {}
  BY <1>1 DEF RoadPlace
<1>2. CASE InReach(w, GATE_RADIUS) # {}
  <2> DEFINE l == FirstInReach(w, GATE_RADIUS)
             c == [w EXCEPT !.cool = @ \union {l.name}]
             e == l.to
             v == RoadPlace(w)
  <2>1. PICK i \in DOMAIN RoadPlaces : l = RoadPlaces[i] /\ Near(w.pos, RoadPlaces[i].at, GATE_RADIUS)
    BY <1>2, FirstIsInReach, SceneNames DEF Landmarks
  <2>2. l.name \in Names /\ e \in Ways
    BY <2>1, LandmarksNamed, LandmarksLead
  <2>3. w.fade = <<>>
    BY <2>1, NoPlaceByGate DEF GoodWorld, Leaves, LeavingByGate
  <2>4. Registers(c, v, TRUE, e)
    BY <1>2 DEF RoadPlace, FadeTo, GoodWorld, WorldRecords, Registers
  <2> HIDE DEF l, e, v
  <2>5. GoodWorld(c) /\ c.scene = w.scene /\ c.fade = w.fade
    BY <2>2, Cooled
  <2> HIDE DEF c
  <2>6. GoodWorld(v) /\ v.scene = c.scene
    BY <2>2, <2>3, <2>4, <2>5, Faded
  <2> QED
    BY <2>5, <2>6 DEF v
<1> QED
  BY <1>1, <1>2

\* A frame: the landmarks are polled, then the gates.

LEMMA GatesKeep ==
  ASSUME NEW w, GoodWorld(w), w.scene \in Worlds, w.scene = "CaravanRoad" => ~w.busy
  PROVE  GoodWorld(GateUpdate(w)) /\ GateUpdate(w).scene = w.scene
<1> DEFINE v == GateUpdate(w)
<1>1. /\ w = [scene |-> w.scene, pos |-> w.pos, arrived |-> w.arrived, key |-> w.key,
              polls |-> w.polls, prompt |-> w.prompt, choice |-> w.choice, cool |-> w.cool,
              busy |-> w.busy, latched |-> w.latched, fade |-> w.fade, next |-> w.next]
      /\ w.pos \in Int \X Int /\ w.latched \in SUBSET (Int \X Int) /\ w.fade \in Seq(Ways)
      /\ Clear(w.pos, w.scene) \/ w.pos \in AtGate(w.scene)
  BY DEF GoodWorld, WorldRecords, Stands
<1>2. PICK latched \in SUBSET (Int \X Int), fade \in Seq(Ways) :
           /\ v = [w EXCEPT !.latched = latched, !.fade = fade]
           /\ w.latched \subseteq latched
           /\ \/ fade = w.fade
              \/ /\ Len(fade) = Len(w.fade) + 1 /\ w.pos \in AtGate(w.scene)
                 /\ \A g \in ToSet(Gates[w.scene]) : Near(w.pos, g.at, GATE_RADIUS) => g.at \in latched
                 /\ \E g \in ToSet(Gates[w.scene]) :
                      g.at \notin w.latched /\ Near(w.pos, g.at, GATE_RADIUS)
  BY <1>1, GatesFire
<1> HIDE DEF v
<1>3. /\ v \in WorldRecords
      /\ v.scene = w.scene /\ v.pos = w.pos /\ v.arrived = w.arrived /\ v.prompt = w.prompt
      /\ v.busy = w.busy /\ v.latched = latched /\ v.fade = fade /\ v.next = w.next
  BY <1>2 DEF GoodWorld, WorldRecords
<1>4. Stands(v)
  BY <1>3 DEF GoodWorld, Stands
<1>5. CASE fade = w.fade
  <2>1. LeavingByGate(w) => LeavingByGate(v)
    BY <1>2, <1>3 DEF LeavingByGate
  <2>2. Leaves(v)
    BY <1>3, <1>5, <2>1 DEF GoodWorld, Leaves
  <2> QED
    BY <1>3, <1>4, <2>2 DEF GoodWorld, v
<1>6. CASE fade # w.fade
  <2>1. /\ Len(fade) = Len(w.fade) + 1 /\ LeavingByGate(v) /\ ~LeavingByGate(w)
    BY <1>2, <1>3, <1>6 DEF LeavingByGate
  <2>2. w.scene # "ApolloVillage" => w.fade = <<>>
    BY <2>1, SceneNames DEF GoodWorld, Leaves
  <2>3. w.scene # "ApolloVillage" => Len(fade) <= 1
    BY <2>1, <2>2
  <2>4. w.scene \notin Places \union {"Loading"}
    BY SceneNames
  <2>5. Leaves(v)
    BY <1>3, <2>1, <2>3, <2>4 DEF GoodWorld, Leaves
  <2> QED
    BY <1>3, <1>4, <2>5 DEF GoodWorld, v
<1> QED
  BY <1>5, <1>6 DEF v

\* A change that leaves the scene, the player and the fade alone.
LEMMA Aside ==
  ASSUME NEW w, GoodWorld(w), NEW v \in WorldRecords,
         v.scene = w.scene, v.pos = w.pos, v.arrived = w.arrived, v.busy = w.busy,
         v.latched = w.latched, v.fade = w.fade, v.next = w.next,
         v.prompt # "" => w.prompt # ""
  PROVE  GoodWorld(v)
BY DEF GoodWorld, Stands, Leaves, LeavingByGate

LEMMA WorldInvPrimed == GoodWorld(world') => WorldInv'
BY DEF WorldInv, GoodWorld, Stands, Leaves, LeavingByGate, Clear, AtGate, WorldRecords

LEMMA EFrameKeeps == ASSUME WorldInv, EFrame PROVE WorldInv'
<1> DEFINE first == PollsLandmarks(world)
           l == IF ~first THEN world
                ELSE CASE world.scene = "ApolloVillage" -> VillageLandmark(world)
                       [] world.scene = "CaravanRoad" -> RoadPlace(world)
                       [] OTHER -> ShanghaiLandmark(world)
           seen == ~first \/ world.polls > 1
           v == IF seen /\ PollsGates(l) THEN GateUpdate(l) ELSE l
<1>1. GoodWorld(world) /\ world.scene \in Worlds
  BY DEF WorldInv, EFrame
<1>2. GoodWorld(l) /\ l.scene = world.scene
  <2>1. CASE ~first
    BY <1>1, <2>1
  <2>2. CASE first /\ world.scene = "ApolloVillage"
    <3>1. l = VillageLandmark(world)
      BY <2>2
    <3> HIDE DEF l
    <3> QED
      BY <1>1, <2>2, <3>1, VillageLandmarkKeeps
  <2>3. CASE first /\ world.scene = "CaravanRoad"
    <3>1. l = RoadPlace(world) /\ ~world.busy
      BY <2>3 DEF PollsLandmarks
    <3> HIDE DEF l
    <3> QED
      BY <1>1, <2>3, <3>1, RoadPlaceKeeps
  <2>4. CASE first /\ world.scene = "CyberpunkShanghai"
    <3>1. l = ShanghaiLandmark(world)
      BY <2>4
    <3> HIDE DEF l
    <3> QED
      BY <1>1, <2>4, <3>1, ShanghaiLandmarkKeeps
  <2> HIDE DEF l, first
  <2> QED
    BY <1>1, <2>1, <2>2, <2>3, <2>4, SceneNames
<1>3. world' = [v EXCEPT !.key = "held"]
  BY DEF EFrame
<1> HIDE DEF l, seen
<1>4. GoodWorld(v)
  <2>1. CASE seen /\ PollsGates(l)
    <3>1. l.scene = "CaravanRoad" => ~l.busy
      BY <2>1 DEF PollsGates
    <3> QED
      BY <1>1, <1>2, <2>1, <3>1, GatesKeep
  <2>2. CASE ~(seen /\ PollsGates(l))
    BY <1>2, <2>2
  <2> QED
    BY <2>1, <2>2
<1> HIDE DEF v
<1>5. /\ world' \in WorldRecords
      /\ world'.scene = v.scene /\ world'.pos = v.pos /\ world'.arrived = v.arrived
      /\ world'.prompt = v.prompt /\ world'.busy = v.busy /\ world'.latched = v.latched
      /\ world'.fade = v.fade /\ world'.next = v.next
  BY <1>3, <1>4 DEF GoodWorld, WorldRecords
<1>6. GoodWorld(world')
  BY <1>4, <1>5, Aside
<1> QED
  BY <1>6, WorldInvPrimed



\* Starting a scene by a way.
LEMMA EnterSceneKeeps ==
  ASSUME NEW w, GoodWorld(w), NEW e \in Ways
  PROVE  GoodWorld(EnterScene(w, e))
<1> DEFINE to == IF e.loading THEN "Loading" ELSE e.dest
           next == <<[e EXCEPT !.loading = FALSE]>>
           v == EnterScene(w, e)
<1>1. v = [w EXCEPT !.scene = to, !.pos = e.spawn, !.arrived = e.via, !.key = "up", !.prompt = "",
                    !.choice = 0, !.cool = {}, !.busy = FALSE, !.latched = {}, !.fade = <<>>, !.next = next]
  BY DEF EnterScene
<1>2. /\ to \in Worlds \union Places \union {"Loading", "several"}
      /\ e.spawn \in Int \X Int /\ e.via \in {"", "gate", "dual", "ambient", "exit"}
      /\ to \in Worlds => to = e.dest
  BY SceneNames DEF Ways
<1>3. next \in Seq(Ways) /\ next # <<>>
  <2>1. [e EXCEPT !.loading = FALSE] \in Ways
    BY DEF Ways
  <2> QED
    BY <2>1
<1>4. to \in Worlds => /\ e.via = "gate" => Clear(e.spawn, to)
                       /\ Clear(e.spawn, to) \/ e.spawn \in AtGate(to)
  BY <1>2 DEF Ways
<1> HIDE DEF to, next, v
<1>5. /\ v \in WorldRecords
      /\ v.scene = to /\ v.pos = e.spawn /\ v.arrived = e.via /\ v.prompt = ""
      /\ v.fade = <<>> /\ v.next = next
  <2>1. w \in WorldRecords
    BY DEF GoodWorld
  <2> DEFINE pos == e.spawn
             arrived == e.via
             none == {}
             no == FALSE
             clean == <<>>
  <2>2. /\ pos \in Int \X Int /\ arrived \in {"", "gate", "dual", "ambient", "exit"}
        /\ clean \in Seq(Ways) /\ none \in SUBSET Names /\ none \in SUBSET (Int \X Int) /\ no \in BOOLEAN
    <3>1. /\ pos \in Int \X Int /\ arrived \in {"", "gate", "dual", "ambient", "exit"}
      BY <1>2
    <3>2. clean \in Seq(Ways) /\ none \in SUBSET Names /\ none \in SUBSET (Int \X Int) /\ no \in BOOLEAN
      OBVIOUS
    <3> QED
      BY <3>1, <3>2
  <2>3. v = [w EXCEPT !.scene = to, !.pos = pos, !.arrived = arrived, !.key = "up", !.prompt = "",
                      !.choice = 0, !.cool = none, !.busy = no, !.latched = none, !.fade = clean,
                      !.next = next]
    BY <1>1
  <2> HIDE DEF pos, arrived, none, no, clean
  <2>4. v = [scene |-> to, pos |-> pos, arrived |-> arrived, key |-> "up", polls |-> w.polls, prompt |-> "",
             choice |-> 0, cool |-> none, busy |-> no, latched |-> none, fade |-> clean, next |-> next]
    BY <2>1, <2>3 DEF WorldRecords
  <2>5. w.polls \in PollsSeen
    BY <2>1 DEF WorldRecords
  <2> DEFINE Scene == Worlds \union Places \union {"Loading", "several"}
             Spot == Int \X Int
             Arrival == {"", "gate", "dual", "ambient", "exit"}
             Cool == SUBSET Names
             Latched == SUBSET (Int \X Int)
             Fade == Seq(Ways)
  <2>6. WorldRecords =
          [scene : Scene, pos : Spot, arrived : Arrival, key : {"up", "pressed", "held"},
           polls : PollsSeen, prompt : {"", "marketplace_stall", "trust_shrine"}, choice : {0, 1},
           cool : Cool, busy : BOOLEAN, latched : Latched, fade : Fade, next : Fade]
    BY DEF WorldRecords
  <2>7. /\ to \in Scene /\ pos \in Spot /\ arrived \in Arrival /\ none \in Cool
        /\ none \in Latched /\ clean \in Fade /\ next \in Fade
    BY <1>2, <1>3, <2>2
  <2> HIDE DEF Scene, Spot, Arrival, Cool, Latched, Fade
  <2>8. v \in WorldRecords
    BY <2>2, <2>4, <2>5, <2>6, <2>7
  <2>9. /\ v.scene = to /\ v.pos = pos /\ v.arrived = arrived /\ v.prompt = ""
        /\ v.fade = clean /\ v.next = next
    BY <2>4
  <2> QED
    BY <2>8, <2>9 DEF pos, arrived, clean
<1>6. Stands(v)
  BY <1>4, <1>5 DEF Stands
<1>7. Leaves(v)
  <2>1. v.fade = <<>> /\ v.prompt = "" /\ v.next # <<>>
    BY <1>3, <1>5, Zenon
  <2>2. Len(<<>>) = 0
    OBVIOUS
  <2>3. Len(v.fade) = 0
    BY <1>5, <2>2, Zenon
  <2>4. Len(v.fade) <= 1
    BY <2>3
  <2> QED
    BY <2>1, <2>4, Zenon DEF Leaves
<1> QED
  BY <1>5, <1>6, <1>7 DEF GoodWorld, v

LEMMA WorldInvInit == ScenesInit => WorldInv
<1> SUFFICES ASSUME ScenesInit PROVE WorldInv
  OBVIOUS
<1>1. PICK s \in StartScenes, n \in PollsSeen :
        world = [scene |-> s, pos |-> IF s \in Worlds THEN DefaultSpawn[s] ELSE <<704, 720>>,
                 arrived |-> "", key |-> "up", polls |-> n, prompt |-> "", choice |-> 0,
                 cool |-> {}, busy |-> FALSE, latched |-> {}, fade |-> <<>>, next |-> <<>>]
  BY DEF ScenesInit
<1>2. s \in Worlds \union Places
  BY ScenesAssumption DEF Places
<1>3. /\ DefaultSpawn.ApolloVillage = <<704, 640>> /\ DefaultSpawn.CaravanRoad = <<96, 480>>
      /\ DefaultSpawn.CyberpunkShanghai = <<160, 640>>
  BY DEF DefaultSpawn
<1> DEFINE p == IF s \in Worlds THEN DefaultSpawn[s] ELSE <<704, 720>>
<1>4. p \in Int \X Int
  BY <1>3, SceneNames
<1>5. s \in Worlds => Clear(p, s) \/ p \in AtGate(s)
  <2>1. Clear(<<160, 640>>, "CyberpunkShanghai")
    BY ClearIs DEF Near
  <2>2. <<96, 480>> \in AtGate("CaravanRoad") /\ AtGate("ApolloVillage") = Int \X Int
    BY DEF AtGate
  <2> QED
    BY <1>3, <1>4, <2>1, <2>2, SceneNames
<1> HIDE DEF p
<1>6. /\ world \in WorldRecords
      /\ world.scene = s /\ world.pos = p /\ world.arrived = "" /\ world.prompt = "" /\ world.fade = <<>>
  <2>1. world = [scene |-> s, pos |-> p, arrived |-> "", key |-> "up", polls |-> n, prompt |-> "",
                 choice |-> 0, cool |-> {}, busy |-> FALSE, latched |-> {}, fade |-> <<>>, next |-> <<>>]
    BY <1>1 DEF p
  <2>2. <<>> \in Seq(Ways) /\ {} \in SUBSET Names /\ {} \in SUBSET (Int \X Int)
    OBVIOUS
  <2>3. s \in Worlds \union Places \union {"Loading", "several"} /\ n \in PollsSeen
    BY <1>2
  <2>4. world \in WorldRecords
    BY <1>4, <2>1, <2>2, <2>3 DEF WorldRecords
  <2> QED
    BY <2>1, <2>4
<1>7. Stands(world)
  BY <1>5, <1>6 DEF Stands
<1>8. Leaves(world)
  <2>1. s # "Loading"
    BY <1>2, SceneNames
  <2>2. Len(<<>>) = 0
    OBVIOUS
  <2>3. Len(world.fade) = 0
    BY <1>6, <2>2, Zenon
  <2>4. Len(world.fade) <= 1
    BY <2>3
  <2> QED
    BY <1>6, <2>1, <2>4, Zenon DEF Leaves
<1> QED
  BY <1>6, <1>7, <1>8 DEF WorldInv, GoodWorld

\* A way is registered by the prompt, an exit or the loading scene.
LEMMA PromptConfirmKeeps == ASSUME WorldInv, PromptConfirm PROVE WorldInv'
<1> DEFINE l == CHOOSE m \in ToSet(VillageLandmarks) : m.name = world.prompt
           d == [world EXCEPT !.prompt = ""]
           e == l.to
           left == world.busy
           v == world'
<1>1. GoodWorld(world) /\ world.prompt \in {"marketplace_stall", "trust_shrine"}
  BY DEF WorldInv, PromptConfirm, GoodWorld, WorldRecords
<1>2. world.scene = "ApolloVillage"
  BY <1>1 DEF GoodWorld, Leaves
<1>3. e \in Ways
  <2>1. /\ VillageLandmarks[1].name = "marketplace_stall" /\ VillageLandmarks[4].name = "trust_shrine"
        /\ DOMAIN VillageLandmarks = 1..5
    BY DEF VillageLandmarks, Landmark
  <2>2. \E m \in ToSet(VillageLandmarks) : m.name = world.prompt
    BY <1>1, <2>1 DEF ToSet
  <2>3. l \in ToSet(VillageLandmarks) /\ l.name = world.prompt
    BY <2>2
  <2> HIDE DEF l
  <2>4. PICK i \in DOMAIN VillageLandmarks : l = VillageLandmarks[i]
    BY <2>3 DEF ToSet
  <2>5. VillageLandmarks[i].name \in {"marketplace_stall", "trust_shrine"}
    BY <1>1, <2>3, <2>4
  <2>6. VillageLandmarks[i].kind = "dual"
    BY <2>5, LandmarksNamed
  <2> QED
    BY <2>4, <2>6, LandmarksLead
<1>4. world' = IF world.choice = 0 THEN d ELSE [d EXCEPT !.fade = Append(d.fade, e)]
  BY DEF PromptConfirm, FadeTo
<1> HIDE DEF l, e
<1>5. GoodWorld(d) /\ d.scene = "ApolloVillage" /\ left \in BOOLEAN
  <2>1. /\ d \in WorldRecords
        /\ d.scene = world.scene /\ d.pos = world.pos /\ d.arrived = world.arrived /\ d.busy = world.busy
        /\ d.latched = world.latched /\ d.fade = world.fade /\ d.next = world.next /\ d.prompt = ""
    BY <1>1 DEF GoodWorld, WorldRecords
  <2> HIDE DEF d
  <2>2. GoodWorld(d)
    BY <1>1, <2>1, Aside
  <2> QED
    BY <1>1, <1>2, <2>1, <2>2 DEF GoodWorld, WorldRecords
<1>6. [d EXCEPT !.busy = left] = d
  BY <1>1 DEF GoodWorld, WorldRecords
<1> HIDE DEF d
<1>7. world' = d \/ Registers(d, v, left, e)
  BY <1>4, <1>6 DEF Registers
<1> HIDE DEF left, v
<1>8. GoodWorld(d) \/ GoodWorld(v)
  BY <1>5
<1>9. Registers(d, v, left, e) => GoodWorld(v)
  BY <1>3, <1>5, Faded
<1>10. GoodWorld(world')
  BY <1>5, <1>7, <1>9 DEF v
<1> QED
  BY <1>10, WorldInvPrimed

LEMMA KeysKeep == ASSUME WorldInv, PressE \/ ReleaseE \/ PromptArrow \/ PromptDismiss \/ Cooldown
                  PROVE  WorldInv'
<1> DEFINE v == world'
<1>1. GoodWorld(world) /\ world \in WorldRecords
  BY DEF WorldInv, GoodWorld
<1>2. /\ v \in WorldRecords
      /\ v.scene = world.scene /\ v.pos = world.pos /\ v.arrived = world.arrived /\ v.busy = world.busy
      /\ v.latched = world.latched /\ v.fade = world.fade /\ v.next = world.next
      /\ v.prompt # "" => world.prompt # ""
  <2>1. CASE PressE
    BY <1>1, <2>1 DEF PressE, WorldRecords
  <2>2. CASE ReleaseE
    BY <1>1, <2>2 DEF ReleaseE, WorldRecords
  <2>3. CASE PromptArrow
    <3> DEFINE other == 1 - world.choice
    <3>1. world.choice \in {0, 1}
      BY <1>1 DEF WorldRecords
    <3>2. world.choice = 0 \/ world.choice = 1
      BY <3>1
    <3>3. other \in {0, 1}
      BY <3>2
    <3>4. v = [world EXCEPT !.choice = other]
      BY <2>3 DEF PromptArrow
    <3> HIDE DEF other, v
    <3> QED
      BY <1>1, <3>3, <3>4 DEF WorldRecords
  <2>4. CASE PromptDismiss
    BY <1>1, <2>4 DEF PromptDismiss, WorldRecords
  <2>5. CASE Cooldown
    <3> DEFINE none == {}
    <3>1. none \in SUBSET Names /\ v = [world EXCEPT !.cool = none]
      BY <2>5 DEF Cooldown
    <3> HIDE DEF none, v
    <3> QED
      BY <1>1, <3>1 DEF WorldRecords
  <2> QED
    BY <2>1, <2>2, <2>3, <2>4, <2>5
<1> HIDE DEF v
<1>3. GoodWorld(v)
  BY <1>1, <1>2, Aside
<1> QED
  BY <1>3, WorldInvPrimed DEF v

\* A step inside a scene.
LEMMA WalkKeeps == ASSUME WorldInv, Walk PROVE WorldInv'
<1> DEFINE v == world'
           s == world.scene
<1>1. GoodWorld(world) /\ s \in Worlds \union Places
  BY DEF WorldInv, Walk, Places
<1>2. PICK p \in Spots(s) : /\ world.fade = <<>> \/ Near(world.pos, p, 80)
                            /\ v = [world EXCEPT !.pos = p, !.arrived = ""]
  BY DEF Walk, STEP_DURING_FADE
<1> HIDE DEF v
<1>3. p \in Int \X Int
  <2>1. CASE s \in Places
    <3>1. Interiors[s].at \in Int \X Int
      <4>1. /\ ApolloMarketplaceBazaar.at \in Int \X Int /\ ApolloOasis.at \in Int \X Int
            /\ ApolloTempleInterior.at \in Int \X Int
        BY DEF ApolloMarketplaceBazaar, ApolloOasis, ApolloTempleInterior, Exit
      <4>2. /\ CaravanWayhouseInterior.at \in Int \X Int /\ CaravanForestCrossroad.at \in Int \X Int
            /\ CaravanMountainPass.at \in Int \X Int
        BY DEF CaravanWayhouseInterior, CaravanForestCrossroad, CaravanMountainPass, Exit
      <4>3. /\ CyberSkyscraperLobby.at \in Int \X Int /\ CyberRooftop.at \in Int \X Int
            /\ CyberUndergroundAlley.at \in Int \X Int /\ CyberServerRoom.at \in Int \X Int
        BY DEF CyberSkyscraperLobby, CyberRooftop, CyberUndergroundAlley, CyberServerRoom, Exit
      <4> QED
        BY <2>1, <4>1, <4>2, <4>3, SceneNames DEF Interiors
    <3>2. p = Interiors[s].at
      BY <2>1, SceneNames DEF Spots
    <3> QED
      BY <3>1, <3>2
  <2>2. CASE s = "ApolloVillage"
    BY <2>2, VillageSpots
  <2>3. CASE s = "CaravanRoad"
    BY <2>3, RoadSpots
  <2>4. CASE s = "CyberpunkShanghai"
    BY <2>4, ShanghaiSpots
  <2> QED
    BY <1>1, <2>1, <2>2, <2>3, <2>4, SceneNames
<1> HIDE DEF s
<1>4. /\ v \in WorldRecords
      /\ v.scene = s /\ v.pos = p /\ v.arrived = "" /\ v.prompt = world.prompt
      /\ v.busy = world.busy /\ v.latched = world.latched /\ v.fade = world.fade /\ v.next = world.next
  BY <1>1, <1>2, <1>3 DEF GoodWorld, WorldRecords, s
<1>5. Stands(v)
  <2>1. s \in Worlds => Clear(p, s) \/ p \in AtGate(s)
    <3>1. AtGate("ApolloVillage") = Int \X Int
      BY DEF AtGate
    <3>2. s \in Worlds => s = "ApolloVillage" \/ s = "CaravanRoad" \/ s = "CyberpunkShanghai"
      BY SceneNames
    <3>3. CASE s = "CaravanRoad"
      BY <1>2, <3>3, RoadWalk
    <3>4. CASE s = "CyberpunkShanghai"
      BY <1>2, <3>4, ShanghaiWalk
    <3> QED
      BY <1>3, <3>1, <3>2, <3>3, <3>4, Zenon
  <2>2. v.arrived # "gate"
    BY <1>4
  <2> QED
    BY <1>4, <2>1, <2>2, Zenon DEF Stands
<1>6. s = "CaravanRoad" /\ world.fade # <<>> /\ LeavingByGate(world) => LeavingByGate(v)
  <2> SUFFICES ASSUME s = "CaravanRoad", world.fade # <<>>, LeavingByGate(world) PROVE LeavingByGate(v)
    OBVIOUS
  <2>1. /\ Near(world.pos, p, 80) /\ world.pos \in AtGate("CaravanRoad") /\ p \in Spots("CaravanRoad")
    BY <1>2 DEF LeavingByGate, s
  <2>2. /\ p \in AtGate("CaravanRoad")
        /\ \A a \in {<<36, 480>>, <<1372, 480>>} : Near(p, a, 96) => Near(world.pos, a, 96)
    BY <2>1, RoadWalk
  <2>3. ASSUME NEW g \in ToSet(Gates.CaravanRoad), Near(p, g.at, 96) PROVE Near(world.pos, g.at, 96)
    <3>1. g = RoadGates[1] \/ g = RoadGates[2]
      BY GatesAre
    <3> QED
      BY <2>2, <2>3, <3>1, GatesAt
  <2>4. \A g \in ToSet(Gates[v.scene]) : Near(v.pos, g.at, GATE_RADIUS) => g.at \in v.latched
    BY <1>4, <2>3 DEF LeavingByGate, GATE_RADIUS, s
  <2>5. v.pos \in AtGate(v.scene)
    <3>1. v.pos = p /\ v.scene = "CaravanRoad"
      BY <1>4
    <3>2. p \in AtGate("CaravanRoad")
      BY <2>2
    <3> QED
      BY <3>1, <3>2, Zenon
  <2> QED
    BY <2>4, <2>5, Zenon DEF LeavingByGate
<1>7. s = "CyberpunkShanghai" /\ world.fade # <<>> /\ LeavingByGate(world) => LeavingByGate(v)
  <2> SUFFICES ASSUME s = "CyberpunkShanghai", world.fade # <<>>, LeavingByGate(world)
               PROVE  LeavingByGate(v)
    OBVIOUS
  <2>1. /\ Near(world.pos, p, 80) /\ world.pos \in AtGate("CyberpunkShanghai")
        /\ p \in Spots("CyberpunkShanghai")
    BY <1>2 DEF LeavingByGate, s
  <2>2. /\ p \in AtGate("CyberpunkShanghai")
        /\ \A a \in {<<36, 240>>, <<1390, 200>>, <<820, 100>>, <<700, 700>>, <<820, 480>>} :
             Near(p, a, 96) => Near(world.pos, a, 96)
    BY <2>1, ShanghaiWalk
  <2>3. ASSUME NEW g \in ToSet(Gates.CyberpunkShanghai), Near(p, g.at, 96)
        PROVE  Near(world.pos, g.at, 96)
    <3>1. \/ g.at = <<36, 240>> \/ g.at = <<1390, 200>> \/ g.at = <<820, 100>>
          \/ g.at = <<700, 700>> \/ g.at = <<820, 480>>
      BY GatesAre, GatesAt
    <3> DEFINE at == g.at
    <3>2. \/ at = <<36, 240>> \/ at = <<1390, 200>> \/ at = <<820, 100>>
          \/ at = <<700, 700>> \/ at = <<820, 480>>
      BY <3>1
    <3>3. Near(p, at, 96)
      BY <2>3
    <3> HIDE DEF at
    <3>4. Near(world.pos, at, 96)
      BY <2>2, <3>2, <3>3
    <3> QED
      BY <3>4 DEF at
  <2>4. \A g \in ToSet(Gates[v.scene]) : Near(v.pos, g.at, GATE_RADIUS) => g.at \in v.latched
    BY <1>4, <2>3 DEF LeavingByGate, GATE_RADIUS, s
  <2>5. v.pos \in AtGate(v.scene)
    <3>1. v.pos = p /\ v.scene = "CyberpunkShanghai"
      BY <1>4
    <3>2. p \in AtGate("CyberpunkShanghai")
      BY <2>2
    <3> QED
      BY <3>1, <3>2, Zenon
  <2> QED
    BY <2>4, <2>5, Zenon DEF LeavingByGate
<1>8. Leaves(v)
  BY <1>1, <1>4, <1>6, <1>7 DEF GoodWorld, Leaves, s
<1>9. GoodWorld(v)
  BY <1>4, <1>5, <1>8 DEF GoodWorld
<1> QED
  BY <1>9, WorldInvPrimed DEF v

LEMMA TriggerExitKeeps == ASSUME WorldInv, TriggerExit PROVE WorldInv'
<1> DEFINE v == world'
           e == Interiors[world.scene].to
<1>1. GoodWorld(world) /\ world.scene \in Places /\ ~world.busy
  BY DEF WorldInv, TriggerExit, Places
<1>2. e \in Ways
  BY <1>1, ExitsLead
<1>3. Registers(world, v, TRUE, e)
  BY <1>1 DEF TriggerExit, FadeTo, Registers, GoodWorld, WorldRecords
<1> HIDE DEF e, v
<1>4. world.fade = <<>> /\ world.scene # "CyberpunkShanghai"
  BY <1>1, SceneNames DEF GoodWorld, Leaves
<1>5. GoodWorld(v)
  BY <1>1, <1>2, <1>3, <1>4, Faded
<1> QED
  BY <1>5, WorldInvPrimed DEF v

LEMMA LoadingUpdateKeeps == ASSUME WorldInv, LoadingUpdate PROVE WorldInv'
<1> DEFINE v == world'
           e == world.next[1]
<1>1. GoodWorld(world) /\ world.scene = "Loading" /\ ~world.busy
  BY DEF WorldInv, LoadingUpdate
<1>2. e \in Ways
  <2>1. world.next \in Seq(Ways) /\ world.next # <<>>
    BY <1>1 DEF GoodWorld, WorldRecords, Leaves
  <2> QED
    BY <2>1
<1>3. Registers(world, v, TRUE, e)
  BY <1>1 DEF LoadingUpdate, FadeTo, Registers, GoodWorld, WorldRecords
<1> HIDE DEF e, v
<1>4. world.fade = <<>> /\ world.scene # "CyberpunkShanghai"
  BY <1>1 DEF GoodWorld, Leaves
<1>5. GoodWorld(v)
  BY <1>1, <1>2, <1>3, <1>4, Faded
<1> QED
  BY <1>5, WorldInvPrimed DEF v

LEMMA FadeCompleteKeeps == ASSUME WorldInv, FadeComplete PROVE WorldInv'
<1> DEFINE v == world'
<1>1. GoodWorld(world) /\ world \in WorldRecords /\ world.fade # <<>>
  BY DEF WorldInv, GoodWorld, FadeComplete
<1>2. CASE Len(world.fade) = 1
  <2> DEFINE e == world.fade[1]
  <2>1. e \in Ways
    <3>1. world.fade \in Seq(Ways)
      BY <1>1 DEF WorldRecords
    <3> QED
      BY <1>2, <3>1
  <2>2. world' = EnterScene(world, e)
    BY <1>2 DEF FadeComplete
  <2> HIDE DEF e
  <2>3. GoodWorld(EnterScene(world, e))
    BY <1>1, <2>1, EnterSceneKeeps
  <2> QED
    BY <2>2, <2>3, WorldInvPrimed
<1>3. CASE Len(world.fade) # 1
  <2> DEFINE none == <<>>
  <2>1. none \in Seq(Ways) /\ none = <<>>
    OBVIOUS
  <2>2. v = [world EXCEPT !.scene = "several", !.prompt = "", !.fade = none]
    BY <1>3 DEF FadeComplete
  <2> HIDE DEF none, v
  <2>3. /\ v \in WorldRecords
        /\ v.scene = "several" /\ v.prompt = "" /\ v.fade = none
    BY <1>1, <2>1, <2>2 DEF WorldRecords
  <2>4. v.scene \notin Worlds \union Places \union {"Loading", "ApolloVillage", "CaravanRoad", "CyberpunkShanghai"}
    BY <2>3, SceneNames
  <2>5. Len(v.fade) <= 1
    <3>1. Len(<<>>) = 0
      OBVIOUS
    <3>2. Len(v.fade) = 0
      BY <2>1, <2>3, <3>1, Zenon
    <3> QED
      BY <3>2
  <2>6. GoodWorld(v)
    BY <2>3, <2>4, <2>5, Zenon DEF GoodWorld, Stands, Leaves
  <2> QED
    BY <2>6, WorldInvPrimed DEF v
<1> QED
  BY <1>2, <1>3

LEMMA WorldInvStep == WorldInv /\ [ScenesNext]_scenesVars => WorldInv'
<1> SUFFICES ASSUME WorldInv, [ScenesNext]_scenesVars PROVE WorldInv'
  OBVIOUS
<1>1. CASE PressE \/ ReleaseE \/ PromptArrow \/ PromptDismiss \/ Cooldown
  BY <1>1, KeysKeep
<1>2. CASE EFrame
  BY <1>2, EFrameKeeps
<1>3. CASE PromptConfirm
  BY <1>3, PromptConfirmKeeps
<1>4. CASE Walk
  BY <1>4, WalkKeeps
<1>5. CASE TriggerExit
  BY <1>5, TriggerExitKeeps
<1>6. CASE LoadingUpdate
  BY <1>6, LoadingUpdateKeeps
<1>7. CASE FadeComplete
  BY <1>7, FadeCompleteKeeps
<1>8. CASE UNCHANGED scenesVars
  <2>1. world' = world
    BY <1>8 DEF scenesVars
  <2> QED
    BY <2>1, WorldInvPrimed DEF WorldInv
<1> QED
  BY <1>1, <1>2, <1>3, <1>4, <1>5, <1>6, <1>7, <1>8 DEF ScenesNext

LEMMA WorldInvPromises == WorldInv => ScenesTypeOK /\ OneDestination /\ GateArrivalClear
<1> SUFFICES ASSUME WorldInv PROVE ScenesTypeOK /\ OneDestination /\ GateArrivalClear
  OBVIOUS
<1>1. OneDestination
  <2>1. world.fade \in Seq(Ways)
    BY DEF WorldInv, GoodWorld, WorldRecords
  <2>2. Len(world.fade) \in Nat
    BY <2>1
  <2>3. world.scene # "ApolloVillage" => Len(world.fade) <= 1
    BY DEF WorldInv, GoodWorld, Leaves
  <2> QED
    BY <2>2, <2>3 DEF OneDestination
<1>2. GateArrivalClear
  BY DEF WorldInv, GoodWorld, Stands, Clear, GateArrivalClear
<1>3. ScenesTypeOK
  <2>1. /\ world.scene \in Worlds \union Places \union {"Loading", "several"}
        /\ world.key \in {"up", "pressed", "held"} /\ world.choice \in {0, 1}
    BY DEF WorldInv, GoodWorld, WorldRecords
  <2>2. world.prompt # "" => world.scene = "ApolloVillage"
    BY DEF WorldInv, GoodWorld, Leaves
  <2>3. world.choice \in 0 .. 1
    BY <2>1
  <2> QED
    BY <2>1, <2>2, <2>3, ZenonT(30) DEF ScenesTypeOK, Places
<1> QED
  BY <1>1, <1>2, <1>3

-----------------------------------------------------------------------------
(* A scene visited again.                                                  *)

VisitTypes ==
  /\ reuse = [scene |-> reuse.scene, phase |-> reuse.phase, visits |-> reuse.visits,
              dirty |-> [s \in VisitedScenes |-> reuse.dirty[s]]]
  /\ reuse.phase \in {"down", "init", "running"}

\* What a visit may leave, and what it may find: after init nothing but what is never reset.
VisitsInv ==
  /\ VisitTypes
  /\ reuse.phase # "down" => reuse.scene \in VisitedScenes
  /\ \A s \in VisitedScenes :
       reuse.dirty[s] \subseteq NeverReset \union
         (IF reuse.phase = "down" \/ s # reuse.scene THEN Lives[s].inits
          ELSE IF reuse.phase = "init" THEN {} ELSE Lives[s].fills \union Lives[s].sets)

\* Of every scene: what create and the player's actions fill is emptied by the SHUTDOWN handler
\* or by the next init, but for the flags that nothing resets.
EmptiedInTime(l) ==
  (l.fills \union l.sets) \ l.resets \subseteq NeverReset \union l.inits

LEMMA LifeEmptied ==
  ASSUME NEW fills, NEW sets, NEW inits, NEW resets,
         fills \subseteq resets \union NeverReset \union inits,
         sets \subseteq resets \union NeverReset \union inits
  PROVE  EmptiedInTime(Life(fills, sets, inits, resets))
BY DEF EmptiedInTime, Life

LEMMA InteriorEmptied ==
  ASSUME NEW fills PROVE EmptiedInTime(Interior(fills, fills))
BY LifeEmptied DEF Interior

LEMMA LivesEmptied == \A s \in DOMAIN Lives : EmptiedInTime(Lives[s])
<1>1. EmptiedInTime(Life(VillageFills, VillageSets, VillageInits, VillageResets))
  <2>1. /\ VillageFills \subseteq VillageResets
        /\ VillageSets \subseteq VillageResets \union NeverReset
    BY DEF VillageResets, VillageSets, NeverReset
  <2> QED
    BY <2>1, LifeEmptied
<1>2. EmptiedInTime(Life(RoadFills, RoadSets, RoadInits, RoadResets))
  <2>1. /\ RoadFills \subseteq RoadResets
        /\ RoadSets \subseteq RoadResets \union NeverReset \union RoadInits
    BY DEF RoadResets, RoadSets, RoadInits, NeverReset
  <2> QED
    BY <2>1, LifeEmptied
<1>3. EmptiedInTime(Life(ShanghaiFills, ShanghaiSets, {"spawnOverride"}, ShanghaiResets))
  <2>1. ShanghaiFills \subseteq ShanghaiResets /\ ShanghaiSets \subseteq ShanghaiResets
    BY DEF ShanghaiResets
  <2> QED
    BY <2>1, LifeEmptied
<1>4. EmptiedInTime(Life(TitleFills, TitleSets, {}, {"blinkTween"}))
  <2>1. TitleFills \subseteq {"blinkTween"} /\ TitleSets \subseteq NeverReset
    BY DEF TitleFills, TitleSets, NeverReset
  <2> QED
    BY <2>1, LifeEmptied
<1>5. EmptiedInTime(Life(IntroFills, IntroSets, IntroInits, IntroResets))
  <2>1. IntroFills \subseteq IntroResets /\ IntroSets \subseteq NeverReset \union IntroInits
    BY DEF IntroFills, IntroSets, IntroInits, IntroResets, NeverReset
  <2> QED
    BY <2>1, LifeEmptied
<1>6. /\ EmptiedInTime(Interior(BazaarFills, BazaarResets))
      /\ EmptiedInTime(Interior(OasisFills, OasisResets))
      /\ EmptiedInTime(Interior(TempleFills, TempleResets))
      /\ EmptiedInTime(Interior(ForestFills, ForestResets))
      /\ EmptiedInTime(Interior(MountainFills, MountainResets))
      /\ EmptiedInTime(Interior(WayhouseFills, WayhouseResets))
      /\ EmptiedInTime(Interior(RooftopFills, RooftopResets))
      /\ EmptiedInTime(Interior(ServerRoomFills, ServerRoomResets))
      /\ EmptiedInTime(Interior(LobbyFills, LobbyResets))
      /\ EmptiedInTime(Interior(AlleyFills, AlleyResets))
  <2>1. /\ BazaarFills = BazaarResets /\ OasisFills = OasisResets /\ TempleFills = TempleResets
        /\ ForestFills = ForestResets /\ MountainFills = MountainResets
        /\ WayhouseFills = WayhouseResets /\ RooftopFills = RooftopResets
        /\ ServerRoomFills = ServerRoomResets /\ LobbyFills = LobbyResets
        /\ AlleyFills = AlleyResets
    BY DEF BazaarFills, BazaarResets, OasisFills, OasisResets, TempleFills, TempleResets, ForestFills,
           ForestResets, MountainFills, MountainResets, WayhouseFills, WayhouseResets, RooftopFills,
           RooftopResets, ServerRoomFills, ServerRoomResets, LobbyFills, LobbyResets, AlleyFills,
           AlleyResets
  <2> QED
    BY <2>1, InteriorEmptied
<1> QED
  BY <1>1, <1>2, <1>3, <1>4, <1>5, <1>6 DEF Lives

LEMMA VisitsInvInit == ReuseInit => VisitsInv
<1> SUFFICES ASSUME ReuseInit PROVE VisitsInv
  OBVIOUS
<1>1. /\ reuse.scene = "" /\ reuse.phase = "down" /\ reuse.visits = 0
      /\ reuse.dirty = [s \in VisitedScenes |-> {}]
      /\ VisitTypes
  BY DEF ReuseInit, VisitTypes
<1> QED
  BY <1>1 DEF VisitsInv

\* A step that changes what one scene holds.
LEMMA DirtyChanged ==
  ASSUME VisitsInv, NEW s \in VisitedScenes, NEW D, NEW ph \in {"down", "init", "running"},
         NEW n,
         reuse' = [scene |-> s, phase |-> ph, visits |-> n, dirty |-> [reuse.dirty EXCEPT ![s] = D]],
         reuse.phase = "down" \/ reuse.scene = s,
         D \subseteq NeverReset \union
           (IF ph = "down" THEN Lives[s].inits
            ELSE IF ph = "init" THEN {} ELSE Lives[s].fills \union Lives[s].sets)
  PROVE  VisitsInv'
<1>1. VisitTypes' /\ reuse'.scene = s /\ reuse'.phase = ph /\ reuse'.dirty[s] = D
  BY DEF VisitsInv, VisitTypes
<1>2. ASSUME NEW t \in VisitedScenes, t # s
      PROVE  reuse'.dirty[t] = reuse.dirty[t] /\ reuse.dirty[t] \subseteq NeverReset \union Lives[t].inits
  BY <1>2 DEF VisitsInv, VisitTypes
<1> QED
  BY <1>1, <1>2 DEF VisitsInv

LEMMA VisitsInvStep == VisitsInv /\ [ReuseNext]_reuseVars => VisitsInv'
<1> SUFFICES ASSUME VisitsInv, [ReuseNext]_reuseVars PROVE VisitsInv'
  OBVIOUS
<1>1. /\ reuse = [scene |-> reuse.scene, phase |-> reuse.phase, visits |-> reuse.visits,
                  dirty |-> reuse.dirty]
      /\ reuse.dirty = [s \in VisitedScenes |-> reuse.dirty[s]]
  BY DEF VisitsInv, VisitTypes
<1>2. \A s \in VisitedScenes : EmptiedInTime(Lives[s])
  BY LivesEmptied, VisitsAssumption
<1>3. ASSUME NEW s \in VisitedScenes, RunInit(s) PROVE VisitsInv'
  <2> DEFINE D == reuse.dirty[s] \ Lives[s].inits
             n == reuse.visits + 1
  <2>1. reuse' = [scene |-> s, phase |-> "init", visits |-> n,
                  dirty |-> [reuse.dirty EXCEPT ![s] = D]]
    BY <1>1, <1>3 DEF RunInit
  <2>2. D \subseteq NeverReset
    BY <1>1, <1>3 DEF RunInit, VisitsInv
  <2>3. reuse.phase = "down"
    BY <1>3 DEF RunInit
  <2> HIDE DEF D, n
  <2> QED
    BY <2>1, <2>2, <2>3, DirtyChanged
<1>4. CASE RunCreate
  <2> DEFINE s == reuse.scene
             D == reuse.dirty[s] \union Lives[s].fills
  <2>1. s \in VisitedScenes /\ reuse.phase = "init"
    BY <1>4 DEF RunCreate, VisitsInv
  <2>2. reuse' = [scene |-> s, phase |-> "running", visits |-> reuse.visits,
                  dirty |-> [reuse.dirty EXCEPT ![s] = D]]
    BY <1>1, <1>4 DEF RunCreate
  <2>3. D \subseteq NeverReset \union (Lives[s].fills \union Lives[s].sets)
    BY <1>1, <1>2, <2>1 DEF VisitsInv, EmptiedInTime
  <2> HIDE DEF D
  <2> QED
    BY <1>1, <2>1, <2>2, <2>3, DirtyChanged
<1>5. CASE PlayInScene
  <2> DEFINE s == reuse.scene
  <2>1. s \in VisitedScenes /\ reuse.phase = "running"
    BY <1>5 DEF PlayInScene, VisitsInv
  <2>2. PICK f \in Lives[s].sets : reuse' = [reuse EXCEPT !.dirty[s] = @ \union {f}]
    BY <1>5 DEF PlayInScene
  <2> DEFINE D == reuse.dirty[s] \union {f}
  <2>3. reuse' = [scene |-> s, phase |-> "running", visits |-> reuse.visits,
                  dirty |-> [reuse.dirty EXCEPT ![s] = D]]
    BY <1>1, <2>1, <2>2
  <2>4. D \subseteq NeverReset \union (Lives[s].fills \union Lives[s].sets)
    BY <1>1, <1>2, <2>1 DEF VisitsInv, EmptiedInTime
  <2> HIDE DEF D
  <2> QED
    BY <1>1, <2>1, <2>3, <2>4, DirtyChanged
<1>6. CASE Shutdown
  <2> DEFINE s == reuse.scene
             D == reuse.dirty[s] \ Lives[s].resets
  <2>1. s \in VisitedScenes /\ reuse.phase = "running"
    BY <1>6 DEF Shutdown, VisitsInv
  <2>2. reuse' = [scene |-> s, phase |-> "down", visits |-> reuse.visits,
                  dirty |-> [reuse.dirty EXCEPT ![s] = D]]
    BY <1>1, <1>6 DEF Shutdown
  <2>3. D \subseteq NeverReset \union Lives[s].inits
    BY <1>1, <1>2, <2>1 DEF VisitsInv, EmptiedInTime
  <2> HIDE DEF D
  <2> QED
    BY <1>1, <2>1, <2>2, <2>3, DirtyChanged
<1>7. CASE UNCHANGED reuseVars
  BY <1>7 DEF VisitsInv, VisitTypes, reuseVars
<1> QED
  BY <1>3, <1>4, <1>5, <1>6, <1>7 DEF ReuseNext

LEMMA VisitsStartFresh == VisitsInv => VisitStartsFresh
BY DEF VisitsInv, VisitStartsFresh

\* Whatever is pressed while a scene fades and however often a scene was visited, a way out leads
\* to one scene, the player stands clear of its gates and finds it as new: inductively, a scene is
\* fading only when its own flag is set or the gate in reach has fired, every way names a spot
\* clear of its gates, and SHUTDOWN or init empties what create and the player fill
\* (TransitionZone, ApolloVillageScene, CaravanRoadScene, CyberpunkShanghaiScene, LoadingScene).
THEOREM DoorsAreSound == ScenesSpec /\ ReuseSpec => []DoorsLeadOnce
<1>1. ScenesInit => WorldInv
  BY WorldInvInit
<1>2. WorldInv /\ [ScenesNext]_scenesVars => WorldInv'
  BY WorldInvStep
<1>3. ReuseInit => VisitsInv
  BY VisitsInvInit
<1>4. VisitsInv /\ [ReuseNext]_reuseVars => VisitsInv'
  BY VisitsInvStep
<1>5. WorldInv /\ VisitsInv => DoorsLeadOnce
  BY WorldInvPromises, VisitsStartFresh DEF DoorsLeadOnce
<1> QED
  BY <1>1, <1>2, <1>3, <1>4, <1>5, PTL DEF ScenesSpec, ReuseSpec

-----------------------------------------------------------------------------
(* The quest.                                                              *)

\* The effect at p was begun: its step is behind the quest, and a call that applies the effects
\* of that step has come past it.
Given(p) ==
  /\ p[1] <= quest.step
  /\ \A l \in 1..level : frames[l].step = p[1] => p[2] < frames[l].at

\* The calls under way apply the effects of different steps, the inner ones of later steps.
FramesInv ==
  \A l \in 1..level :
    /\ frames[l].step \in l..quest.step /\ frames[l].at \in 1..(Len(Steps[frames[l].step].effects) + 1)
    /\ \A m \in 1..level : l < m => frames[l].step < frames[m].step

\* What the player owns was promised at a place whose effect was begun.
OwnedOnce(kind, amount) ==
  amount = 0 \/ \E p \in PlacesOf(kind) : amount = EffectAt(p)[2] /\ Given(p)

ItemsOnce ==
  \A i \in Items :
    /\ goods.items[i] <= 1
    /\ goods.items[i] > 0 =>
         \E p \in PlacesOf("award_item") : EffectAt(p)[2] = i /\ Given(p)

\* A step that waits for an item that is owned is about to hear of it.
NoticeUnderWay ==
  \A i \in Items :
    quest.status = "active" /\ quest.step < Len(Steps) /\ goods.items[i] > 0
    /\ Steps[quest.step + 1].on = <<"item_acquired", i>>
      => trigger = Trigger(<<"item_acquired", i>>, 0)

QuestInv ==
  /\ PlayTypeOK /\ FramesInv /\ ItemsOnce /\ NoticeUnderWay /\ LobbyPausedForCinematic
  /\ OwnedOnce("add_currency", goods.usd) /\ OwnedOnce("add_trust", goods.trust)

USE DEF Items, QuestStates

LEMMA PlacesAre ==
  /\ \A p \in EffectPlaces : /\ p[1] \in 1..Len(Steps) /\ p[2] \in 1..Len(Steps[p[1]].effects)
                       /\ p = <<p[1], p[2]>>
  /\ \A k \in 1..Len(Steps) : \A j \in 1..Len(Steps[k].effects) :
       <<k, j>> \in EffectPlaces /\ <<k, j>>[1] = k /\ <<k, j>>[2] = j
BY DEF EffectPlaces

LEMMA PlacesOfKind == \A kind : \A p : p \in PlacesOf(kind) <=> p \in EffectPlaces /\ EffectAt(p)[1] = kind
BY DEF PlacesOf

\* Without a trigger no step waits for what is owned.
LEMMA NothingIsDue ==
  ASSUME NoticeUnderWay, trigger = NoTrigger
  PROVE  \A i \in Items :
           quest.status = "active" /\ quest.step < Len(Steps) /\ goods.items[i] > 0
             => Steps[quest.step + 1].on # <<"item_acquired", i>>
<1>1. \A i : NoTrigger # Trigger(<<"item_acquired", i>>, 0)
  <2>1. \A i : <<"none">>[1] # <<"item_acquired", i>>[1]
    OBVIOUS
  <2> QED BY <2>1 DEF NoTrigger, Trigger
<1> QED BY <1>1 DEF NoticeUnderWay

\* A step that leaves the quest, the goods and the calls alone leaves what is owned alone.
LEMMA OwnedStays ==
  ASSUME QuestInv, trigger = NoTrigger, UNCHANGED <<quest, goods, frames>>
  PROVE  /\ FramesInv' /\ ItemsOnce' /\ NoticeUnderWay'
         /\ OwnedOnce("add_currency", goods.usd)' /\ OwnedOnce("add_trust", goods.trust)'
<1>0. level' = level
  BY DEF level
<1>1. NoticeUnderWay'
  BY NothingIsDue DEF QuestInv, NoticeUnderWay
<1>2. \A p : Given(p)' <=> Given(p)
  BY <1>0 DEF Given
<1>3. ItemsOnce'
  BY <1>2 DEF QuestInv, ItemsOnce
<1>4. OwnedOnce("add_currency", goods.usd)' /\ OwnedOnce("add_trust", goods.trust)'
  BY <1>2 DEF QuestInv, OwnedOnce
<1>5. FramesInv'
  BY <1>0 DEF QuestInv, FramesInv
<1> QED BY <1>1, <1>3, <1>4, <1>5

\* The calls under way are as many as their frames, and within the depth guard.
LEMMA LevelIs ==
  ASSUME frames \in Seq(CallFrames), level <= MAX_TRIGGER_DEPTH
  PROVE  /\ level \in 0..MAX_TRIGGER_DEPTH /\ level \in Nat /\ MAX_TRIGGER_DEPTH \in Nat
         /\ \A l \in 1..level : frames[l] \in CallFrames
BY QuestAssumption, LenProperties, ElementOfSeq DEF level

\* A trigger moves the quest by a step and opens a call, or neither.
LEMMA FireKeeps ==
  ASSUME QuestInv, FireTrigger
  PROVE  QuestInv'
<1>0. Len(Steps) \in Nat /\ MAX_TRIGGER_DEPTH \in Nat /\ Len(Steps) < MAX_TRIGGER_DEPTH
  BY QuestAssumption
<1> DEFINE fires == level < MAX_TRIGGER_DEPTH /\ Due(quest, trigger)
<1>1. /\ quest \in QuestStates
      /\ level \in 0..MAX_TRIGGER_DEPTH
      /\ frames \in Seq(CallFrames)
  BY LevelIs DEF QuestInv, PlayTypeOK
<1>2. /\ Noted(quest, trigger) \in QuestStates
      /\ Noted(quest, trigger).step = quest.step /\ Noted(quest, trigger).status = quest.status
  BY <1>0, <1>1 DEF Noted
<1>3. level <= quest.step
  <2>1. CASE level = 0
    BY <1>0, <1>1, <2>1
  <2>2. CASE level > 0
    <3>1. level \in 1..level
      BY <1>0, <1>1, <2>2
    <3>2. frames[level].step \in level..quest.step
      BY <3>1 DEF QuestInv, FramesInv
    <3> QED BY <1>0, <1>1, <3>2
  <2> QED BY <1>0, <1>1, <2>1, <2>2
<1>6. quest.step \in Nat /\ level \in Nat
  BY <1>0, <1>1
<1>4. CASE fires
  <2>1. /\ quest.status = "active" /\ quest.step < Len(Steps) /\ level < MAX_TRIGGER_DEPTH
        /\ quest' = Advance(Noted(quest, trigger))
        /\ frames' = Append(frames, [step |-> quest.step + 1, at |-> 1])
        /\ UNCHANGED <<goods, dialogue, screen, phaser, caller>>
    BY <1>4 DEF FireTrigger, Due
  <2>2. /\ quest' \in QuestStates
        /\ quest'.step = quest.step + 1
    <3>1. quest.step + 1 \in 0..Len(Steps)
      BY <1>0, <1>1, <2>1
    <3> QED BY <1>1, <1>2, <2>1, <3>1 DEF Advance
  <2>3. /\ frames' \in Seq(CallFrames) /\ level' = level + 1 /\ level' <= MAX_TRIGGER_DEPTH
        /\ frames'[level + 1] = [step |-> quest.step + 1, at |-> 1]
        /\ \A l \in 1..level : frames'[l] = frames[l]
    <3>1. [step |-> quest.step + 1, at |-> 1] \in CallFrames
      BY <1>6 DEF CallFrames
    <3>2. level + 1 <= MAX_TRIGGER_DEPTH
      BY <1>0, <1>6, <2>1
    <3> QED BY <1>1, <2>1, <3>1, <3>2, AppendProperties DEF level
  <2>11. quest'.step = quest.step + 1 /\ level' = level + 1 /\ quest.step < Len(Steps)
    BY <2>1, <2>2, <2>3
  <2>12. /\ frames'[level + 1].step = quest.step + 1 /\ frames'[level + 1].at = 1
        /\ \A l \in 1..level : frames'[l] = frames[l]
    BY <2>3
  <2>4. PlayTypeOK'
    BY <2>1, <2>2, <2>3 DEF QuestInv, PlayTypeOK
  <2>5. FramesInv'
    <3>1. ASSUME NEW l \in 1..level'
          PROVE  /\ frames'[l].step \in l..quest'.step
                 /\ frames'[l].at \in 1..(Len(Steps[frames'[l].step].effects) + 1)
      <4>1. CASE l = level + 1
        <5>1. Len(Steps[quest.step + 1].effects) \in Nat
          <6>1. quest.step + 1 \in 1..Len(Steps)
            BY <1>0, <1>6, <2>11
          <6> QED BY <6>1, QuestAssumption
        <5>2. frames'[l].step = quest.step + 1 /\ frames'[l].at = 1
          BY <2>12, <4>1
        <5>3. l \in Nat /\ l <= quest.step + 1 /\ quest'.step = quest.step + 1
          BY <1>6, <1>3, <2>11, <4>1
        <5>4. quest.step + 1 \in l..quest'.step
          BY <1>6, <5>3
        <5>5. 1 \in 1..(Len(Steps[quest.step + 1].effects) + 1)
          BY <5>1
        <5> QED BY <5>2, <5>4, <5>5
      <4>2. CASE l # level + 1
        <5>1. l \in 1..level
          BY <1>6, <2>11, <4>2
        <5>2. /\ frames[l].step \in l..quest.step
              /\ frames[l].at \in 1..(Len(Steps[frames[l].step].effects) + 1)
          BY <5>1 DEF QuestInv, FramesInv
        <5> QED BY <1>6, <2>11, <2>12, <5>1, <5>2
      <4> QED BY <4>1, <4>2
    <3>2. ASSUME NEW l \in 1..level', NEW m \in 1..level', l < m
          PROVE  frames'[l].step < frames'[m].step
      <4>1. l \in 1..level
        BY <1>6, <2>11, <3>2
      <4>2. frames[l].step \in l..quest.step
        BY <4>1 DEF QuestInv, FramesInv
      <4>3. CASE m = level + 1
        BY <1>0, <1>1, <2>3, <4>1, <4>2, <4>3
      <4>4. CASE m # level + 1
        <5>1. m \in 1..level
          BY <1>6, <2>11, <4>4
        <5> QED BY <2>3, <3>2, <4>1, <5>1 DEF QuestInv, FramesInv
      <4> QED BY <4>3, <4>4
    <3> QED BY <3>1, <3>2 DEF FramesInv
  <2>6. ASSUME NEW p \in EffectPlaces, Given(p)
        PROVE  Given(p)' /\ p[1] # quest.step + 1
    <3>1. p[1] \in 1..Len(Steps) /\ p[1] <= quest.step
      BY <2>6, PlacesAre DEF Given
    <3>2. ASSUME NEW l \in 1..level', frames'[l].step = p[1]
          PROVE  p[2] < frames'[l].at
      <4>1. l # level + 1
        BY <1>6, <2>12, <3>1, <3>2
      <4>2. l \in 1..level
        BY <1>6, <2>11, <4>1
      <4> QED BY <2>12, <2>6, <3>2, <4>2 DEF Given
    <3>3. p[1] <= quest'.step /\ p[1] # quest.step + 1
      BY <1>6, <2>11, <3>1
    <3> QED BY <3>2, <3>3 DEF Given
  <2>7. ItemsOnce'
    BY <2>1, <2>6, PlacesOfKind DEF QuestInv, ItemsOnce
  <2>8. OwnedOnce("add_currency", goods.usd)' /\ OwnedOnce("add_trust", goods.trust)'
    BY <2>1, <2>6, PlacesOfKind DEF QuestInv, OwnedOnce
  <2>9. NoticeUnderWay'
    <3> SUFFICES ASSUME NEW i \in Items, quest'.step < Len(Steps), goods'.items[i] > 0,
                        Steps[quest'.step + 1].on = <<"item_acquired", i>>
                 PROVE  FALSE
      BY DEF NoticeUnderWay
    <3>1. PICK p \in PlacesOf("award_item") : EffectAt(p)[2] = i /\ Given(p)
      BY <2>1 DEF QuestInv, ItemsOnce
    <3>2. p[1] # quest.step + 1 /\ p[1] \in 1..Len(Steps)
      BY <2>6, <3>1, PlacesOfKind, PlacesAre
    <3>3. quest'.step + 1 \in 1..Len(Steps)
      BY <1>0, <1>6, <2>11
    <3>4. p[1] + 1 = quest'.step + 1
      BY <3>1, <3>3, QuestAssumption
    <3> QED BY <1>6, <2>11, <3>2, <3>4
  <2>10. LobbyPausedForCinematic'
    BY <2>1 DEF QuestInv, LobbyPausedForCinematic
  <2> QED BY <2>4, <2>5, <2>7, <2>8, <2>9, <2>10 DEF QuestInv
<1>5. CASE ~fires
  <2>1. /\ quest'.step = quest.step /\ quest'.status = quest.status
        /\ quest' \in QuestStates
        /\ UNCHANGED <<frames, goods, dialogue, screen, phaser, caller>> /\ level' = level
    BY <1>0, <1>1, <1>2, <1>5 DEF FireTrigger, level
  <2>2. PlayTypeOK'
    BY <2>1 DEF QuestInv, PlayTypeOK
  <2>3. FramesInv'
    BY <2>1 DEF QuestInv, FramesInv
  <2>4. \A p : Given(p)' <=> Given(p)
    BY <2>1 DEF Given
  <2>5. ItemsOnce'
    BY <2>1, <2>4 DEF QuestInv, ItemsOnce
  <2>6. OwnedOnce("add_currency", goods.usd)' /\ OwnedOnce("add_trust", goods.trust)'
    BY <2>1, <2>4 DEF QuestInv, OwnedOnce
  <2>7. NoticeUnderWay'
    <3> SUFFICES ASSUME NEW i \in Items, quest.status = "active", quest.step < Len(Steps),
                        goods.items[i] > 0, Steps[quest.step + 1].on = <<"item_acquired", i>>
                 PROVE  FALSE
      BY <2>1 DEF NoticeUnderWay
    <3>1. trigger = Trigger(<<"item_acquired", i>>, 0)
      BY DEF QuestInv, NoticeUnderWay
    <3>2. trigger.on = <<"item_acquired", i>> /\ trigger.chars = 0
      BY <3>1 DEF Trigger
    <3>3. Steps[quest.step + 1].minChars = 0
      <4>1. quest.step + 1 \in 1..Len(Steps)
        BY <1>0, <1>1
      <4> QED BY <4>1, QuestAssumption
    <3>4. level < MAX_TRIGGER_DEPTH
      BY <1>0, <1>1, <1>3
    <3> QED BY <1>5, <3>2, <3>3, <3>4 DEF Due
  <2>8. LobbyPausedForCinematic'
    BY <2>1 DEF QuestInv, LobbyPausedForCinematic
  <2> QED BY <2>2, <2>3, <2>5, <2>6, <2>7, <2>8 DEF QuestInv
<1> QED BY <1>4, <1>5

\* A call whose effects are applied returns.
LEMMA ReturnKeeps ==
  ASSUME QuestInv, TriggerReturns
  PROVE  QuestInv'
<1>1. /\ frames \in Seq(CallFrames) /\ level \in 1..MAX_TRIGGER_DEPTH /\ MAX_TRIGGER_DEPTH \in Nat
      /\ \A l \in 1..level : frames[l] \in CallFrames
      /\ frames' = SubSeq(frames, 1, level - 1) /\ trigger = NoTrigger
      /\ UNCHANGED <<quest, goods, dialogue, screen, phaser, trigger, caller>>
  BY LevelIs DEF QuestInv, PlayTypeOK, TriggerReturns, storeVars
<1>2. /\ frames' \in Seq(CallFrames) /\ level' = level - 1 /\ level' <= MAX_TRIGGER_DEPTH
      /\ \A l \in 1..level' : l \in 1..level /\ frames'[l] = frames[l]
  <2>1. level - 1 \in Nat /\ \A l \in 1..(level - 1) : l \in 1..level /\ frames[l] \in CallFrames
    BY <1>1
  <2>2. /\ frames' \in Seq(CallFrames)
        /\ Len(frames') = IF 1 <= level - 1 THEN level - 1 - 1 + 1 ELSE 0
        /\ \A l \in 1..(level - 1 - 1 + 1) : frames'[l] = frames[1 + l - 1]
    BY <1>1, <2>1, SubSeqProperties
  <2>3. Len(frames') = level - 1 /\ \A l \in 1..(level - 1) : frames'[l] = frames[l]
    BY <2>1, <2>2
  <2>4. level' = level - 1
    BY <2>3 DEF level
  <2>5. level - 1 <= MAX_TRIGGER_DEPTH
    BY <1>1
  <2> QED BY <2>1, <2>2, <2>3, <2>4, <2>5
<1>3. PlayTypeOK'
  BY <1>1, <1>2 DEF QuestInv, PlayTypeOK
<1>4. FramesInv'
  BY <1>1, <1>2 DEF QuestInv, FramesInv
<1>5. \A p : Given(p) => Given(p)'
  BY <1>1, <1>2 DEF Given
<1>6. ItemsOnce'
  BY <1>1, <1>5 DEF QuestInv, ItemsOnce
<1>7. OwnedOnce("add_currency", goods.usd)' /\ OwnedOnce("add_trust", goods.trust)'
  BY <1>1, <1>5 DEF QuestInv, OwnedOnce
<1>8. NoticeUnderWay'
  BY <1>1, NothingIsDue DEF QuestInv, NoticeUnderWay
<1>9. LobbyPausedForCinematic'
  BY <1>1 DEF QuestInv, LobbyPausedForCinematic
<1> QED BY <1>3, <1>4, <1>6, <1>7, <1>8, <1>9 DEF QuestInv

\* The effect a call comes to was not begun, and now it is.
LEMMA FrameComesPast ==
  ASSUME QuestInv, level > 0, EffectsLeft, quest'.step = quest.step,
         frames' = [frames EXCEPT ![level].at = @ + 1],
         NEW k, NEW j, k = frames[level].step, j = frames[level].at
  PROVE  /\ <<k, j>> \in EffectPlaces /\ ~Given(<<k, j>>) /\ Given(<<k, j>>)'
         /\ \A p \in EffectPlaces : Given(p) => Given(p)'
         /\ FramesInv' /\ frames' \in Seq(CallFrames) /\ level' = level
<1>1. /\ level \in 1..MAX_TRIGGER_DEPTH /\ level \in Nat /\ level \in 1..level /\ quest.step \in 0..Len(Steps)
      /\ Len(Steps) \in Nat /\ MAX_TRIGGER_DEPTH \in Nat
      /\ frames \in Seq(CallFrames) /\ \A l \in 1..level : frames[l] \in CallFrames
  <2>1. quest.step \in 0..Len(Steps)
    BY DEF QuestInv, PlayTypeOK
  <2>2. /\ level \in 0..MAX_TRIGGER_DEPTH /\ level \in Nat /\ frames \in Seq(CallFrames)
        /\ \A l \in 1..level : frames[l] \in CallFrames
    BY LevelIs DEF QuestInv, PlayTypeOK
  <2> QED BY <2>1, <2>2, QuestAssumption
<1>2. k \in level..quest.step /\ j \in 1..(Len(Steps[k].effects) + 1)
  BY <1>1 DEF QuestInv, FramesInv
<1>3. k \in 1..Len(Steps)
  BY <1>1, <1>2
<1>4. Len(Steps[k].effects) \in Nat
  BY <1>3, QuestAssumption
<1>5. j \in 1..Len(Steps[k].effects)
  BY <1>2, <1>4 DEF EffectsLeft, Frame
<1>6. <<k, j>> \in EffectPlaces /\ <<k, j>>[1] = k /\ <<k, j>>[2] = j
  BY <1>3, <1>5, PlacesAre
<1>7. /\ frames'[level].step = k /\ frames'[level].at = j + 1
      /\ \A l \in 1..level : l # level => frames'[l] = frames[l]
      /\ frames' \in Seq(CallFrames) /\ level' = level
  <2> DEFINE frame == [frames[level] EXCEPT !.at = @ + 1]
  <2>1. frame \in CallFrames /\ frame.step = k /\ frame.at = j + 1
    BY <1>1 DEF CallFrames
  <2>2. frames' = [frames EXCEPT ![level] = frame]
    OBVIOUS
  <2> HIDE DEF frame
  <2>3. /\ frames' \in Seq(CallFrames) /\ Len(frames') = Len(frames)
        /\ \A l \in 1..level : frames'[l] = IF l = level THEN frame ELSE frames[l]
    <3>1. level \in 1..Len(frames)
      BY <1>1 DEF level
    <3>2. \A i \in 1..Len(frames) :
            /\ [frames EXCEPT ![i] = frame] \in Seq(CallFrames)
            /\ Len([frames EXCEPT ![i] = frame]) = Len(frames)
            /\ \A l \in 1..Len(frames) : [frames EXCEPT ![i] = frame][l] = IF l = i THEN frame ELSE frames[l]
      BY <1>1, <2>1, ExceptSeq
    <3>3. /\ frames' \in Seq(CallFrames) /\ Len(frames') = Len(frames)
          /\ \A l \in 1..Len(frames) : frames'[l] = IF l = level THEN frame ELSE frames[l]
      BY <2>2, <3>1, <3>2
    <3> QED BY <3>3 DEF level
  <2> QED BY <1>1, <2>1, <2>3 DEF level
<1>8. \A l \in 1..level : l # level => frames[l].step < k
  <2>1. \A l \in 1..level : l # level => l < level
    BY <1>1
  <2> QED BY <1>1, <2>1 DEF QuestInv, FramesInv
<1>9. \A l \in 1..level : frames[l].step \in Nat
  BY <1>1 DEF CallFrames
<1>10. ~Given(<<k, j>>)
  <2> SUFFICES ASSUME Given(<<k, j>>) PROVE FALSE
    OBVIOUS
  <2>1. j < j
    BY <1>1, <1>6 DEF Given
  <2> QED BY <1>5, <1>4, <2>1
<1>11. Given(<<k, j>>)'
  <2>1. k <= quest'.step
    BY <1>1, <1>2
  <2>2. ASSUME NEW l \in 1..level, frames'[l].step = k PROVE j < frames'[l].at
    <3>1. l = level
      BY <1>1, <1>7, <1>8, <1>9, <1>3, <2>2
    <3> QED BY <1>4, <1>5, <1>7, <3>1
  <2> QED BY <1>6, <1>7, <2>1, <2>2 DEF Given
<1>12. ASSUME NEW p \in EffectPlaces, Given(p) PROVE Given(p)'
  <2>1. ASSUME NEW l \in 1..level, frames'[l].step = p[1] PROVE p[2] < frames'[l].at
    <3>1. p[2] \in Nat
      BY <1>3, PlacesAre, QuestAssumption
    <3>2. CASE l = level
      <4>1. p[2] < j
        BY <1>7, <1>12, <2>1, <3>2 DEF Given
      <4> QED BY <1>4, <1>5, <1>7, <3>1, <3>2, <4>1
    <3>3. CASE l # level
      BY <1>7, <1>12, <2>1, <3>3 DEF Given
    <3> QED BY <3>2, <3>3
  <2> QED BY <1>7, <1>12, <2>1 DEF Given
<1>13. FramesInv'
  <2>1. ASSUME NEW l \in 1..level
        PROVE  /\ frames'[l].step \in l..quest.step
               /\ frames'[l].at \in 1..(Len(Steps[frames'[l].step].effects) + 1)
               /\ frames'[l].step = frames[l].step
    <3>1. CASE l = level
      BY <1>2, <1>4, <1>5, <1>7, <3>1
    <3>2. CASE l # level
      BY <1>7, <3>2 DEF QuestInv, FramesInv
    <3> QED BY <3>1, <3>2
  <2>2. \A l, m \in 1..level : l < m => frames'[l].step < frames'[m].step
    BY <2>1 DEF QuestInv, FramesInv
  <2> QED BY <1>7, <2>1, <2>2 DEF FramesInv
<1> QED BY <1>6, <1>7, <1>10, <1>11, <1>12, <1>13

\* Opening or moving to a node that exists leaves a dialogue that exists.
LEMMA NodesAreStates ==
  /\ \A id, node : IsNode(id, node) => Opened(id, node) \in DialogueStates
  /\ \A d \in DialogueStates : \A node : IsNode(d.id, node) =>
       [d EXCEPT !.node = node, !.pending = Dialogues[d.id].nodes[node].effects] \in DialogueStates
<1>1. \A id, node : IsNode(id, node) =>
        /\ id \in DOMAIN Dialogues /\ id # "none" /\ node \in NodeNames
        /\ Dialogues[id].nodes[node].effects \in {n.effects : n \in AllNodes}
  BY DialoguesAssumption DEF IsNode, NodeNames, AllNodes
<1>2. ASSUME NEW id, NEW node, IsNode(id, node) PROVE Opened(id, node) \in DialogueStates
  BY <1>1, <1>2 DEF Opened, DialogueStates
<1>3. ASSUME NEW d \in DialogueStates, NEW node, IsNode(d.id, node)
      PROVE  [d EXCEPT !.node = node, !.pending = Dialogues[d.id].nodes[node].effects] \in DialogueStates
  <2> DEFINE e == Dialogues[d.id].nodes[node].effects
             moved == [d EXCEPT !.node = node, !.pending = e]
  <2>1. /\ d.id \in DOMAIN Dialogues /\ d.id # "none" /\ node \in NodeNames
        /\ e \in {n.effects : n \in AllNodes}
    BY <1>1, <1>3
  <2> HIDE DEF e
  <2>2. /\ moved.id = d.id /\ moved.node = node
        /\ moved \in [id : DOMAIN Dialogues \cup {"none"}, node : NodeNames \cup {"none"},
                      streaming : BOOLEAN, pending : {n.effects : n \in AllNodes} \cup {<<>>}]
    BY <2>1 DEF DialogueStates
  <2> HIDE DEF moved
  <2>3. moved \in DialogueStates
    BY <1>3, <2>1, <2>2 DEF DialogueStates
  <2> QED BY <2>3 DEF moved, e
<1> QED BY <1>2, <1>3

\* A write of the dialogue store leaves the stores of the overlay as they can be.
LEMMA MoveIsTyped ==
  ASSUME PlayTypeOK, NEW d \in DialogueStates, NEW t, MoveTo(d, t)
  PROVE  dialogue' \in DialogueStates /\ screen' \in ScreenStates
<1>1. Overlay \in BOOLEAN
  BY DialoguesAssumption
<1>2. screen' \in ScreenStates
  BY <1>1 DEF MoveTo, Rerender, PlayTypeOK, ScreenStates
<1> QED BY <1>2 DEF MoveTo

\* The innermost call applies an effect.
LEMMA ApplyKeeps ==
  ASSUME QuestInv, ApplyEffect
  PROVE  QuestInv'
<1>1. PICK s, n, e : /\ s = frames[level].step /\ n = frames[level].at
                     /\ e = EffectAt(<<s, n>>)
  OBVIOUS
<1>2. /\ trigger = NoTrigger /\ level > 0 /\ EffectsLeft
      /\ IF e[1] \in StoreEffects THEN StoreEffect(e)
         ELSE IF phaser.wired THEN BridgeEffect(e)
         ELSE Unpaid /\ NothingShown /\ UNCHANGED phaser
      /\ frames' = [frames EXCEPT ![level].at = @ + 1]
      /\ UNCHANGED caller
  BY <1>1 DEF ApplyEffect, Frame
<1>3. /\ PlayTypeOK /\ quest \in QuestStates /\ goods \in GoodsStates /\ dialogue \in DialogueStates
      /\ screen \in ScreenStates /\ phaser \in PhaserStates /\ level <= MAX_TRIGGER_DEPTH
      /\ ItemsOnce /\ OwnedOnce("add_currency", goods.usd) /\ OwnedOnce("add_trust", goods.trust)
  BY DEF QuestInv, PlayTypeOK
<1>4. /\ quest' \in QuestStates /\ quest'.step = quest.step
      /\ quest'.status = "active" => quest.status = "active"
  BY <1>2, <1>3 DEF StoreEffect, BridgeEffect, PlayCinematic, Award, Unpaid, StoreEffects
<1>5. /\ <<s, n>> \in EffectPlaces /\ ~Given(<<s, n>>) /\ Given(<<s, n>>)'
      /\ \A p \in EffectPlaces : Given(p) => Given(p)'
      /\ FramesInv' /\ frames' \in Seq(CallFrames) /\ level' = level
  BY <1>1, <1>2, <1>4, FrameComesPast
\* What each part of the invariant asks of the effect.
<1>6. ASSUME goods' \in GoodsStates, dialogue' \in DialogueStates, screen' \in ScreenStates,
             phaser' \in PhaserStates
      PROVE  PlayTypeOK'
  BY <1>2, <1>3, <1>4, <1>5, <1>6 DEF PlayTypeOK
<1>7. ASSUME goods'.items = goods.items PROVE ItemsOnce' /\ NoticeUnderWay'
  <2>1. ItemsOnce'
    BY <1>3, <1>5, <1>7, PlacesOfKind DEF ItemsOnce
  <2>2. NoticeUnderWay'
    BY <1>2, <1>4, <1>7, NothingIsDue DEF NoticeUnderWay, QuestInv
  <2> QED BY <2>1, <2>2
<1>8. ASSUME goods'.usd = goods.usd PROVE OwnedOnce("add_currency", goods.usd)'
  BY <1>3, <1>5, <1>8, PlacesOfKind DEF OwnedOnce
<1>9. ASSUME goods'.trust = goods.trust PROVE OwnedOnce("add_trust", goods.trust)'
  BY <1>3, <1>5, <1>9, PlacesOfKind DEF OwnedOnce
<1>10. ASSUME UNCHANGED phaser PROVE LobbyPausedForCinematic' /\ phaser' \in PhaserStates
  BY <1>3, <1>10 DEF QuestInv, LobbyPausedForCinematic
<1>11. ASSUME UNCHANGED goods
       PROVE  /\ goods' \in GoodsStates /\ ItemsOnce' /\ NoticeUnderWay'
              /\ OwnedOnce("add_currency", goods.usd)' /\ OwnedOnce("add_trust", goods.trust)'
  BY <1>3, <1>7, <1>8, <1>9, <1>11
<1>12. ASSUME NothingShown PROVE dialogue' \in DialogueStates /\ screen' \in ScreenStates
  BY <1>3, <1>12 DEF NothingShown
<1> QED
  <2>1. CASE e[1] = "unlock_world"
    <3>1. /\ goods' = [goods EXCEPT !.worlds = @ \union {e[2]}] /\ NothingShown /\ UNCHANGED phaser
      BY <1>2, <2>1 DEF StoreEffects, StoreEffect
    <3>2. <<s, n>> \in PlacesOf("unlock_world")
      BY <1>1, <1>5, <2>1, PlacesOfKind
    <3>3. /\ goods' \in GoodsStates /\ goods'.items = goods.items
          /\ goods'.usd = goods.usd /\ goods'.trust = goods.trust
      BY <1>1, <1>3, <3>1, <3>2 DEF GoodsStates
    <3> QED BY <1>5, <1>6, <1>7, <1>8, <1>9, <1>10, <1>12, <3>1, <3>3 DEF QuestInv
  <2>2. CASE e[1] = "add_trust"
    <3>1. /\ goods' = [goods EXCEPT !.trust = @ + e[2]] /\ NothingShown /\ UNCHANGED phaser
      BY <1>2, <2>2 DEF StoreEffects, StoreEffect
    <3>2. <<s, n>> \in PlacesOf("add_trust") /\ e[2] \in Nat
      BY <1>1, <1>5, <2>2, PlacesOfKind, QuestAssumption
    <3>3. goods.trust = 0
      <4> SUFFICES ASSUME goods.trust # 0 PROVE FALSE
        OBVIOUS
      <4>1. PICK p \in PlacesOf("add_trust") : Given(p)
        BY <1>3 DEF OwnedOnce
      <4>2. p = <<s, n>>
        BY <3>2, <4>1, QuestAssumption
      <4> QED BY <1>5, <4>1, <4>2
    <3>4. /\ goods' \in GoodsStates /\ goods'.items = goods.items
          /\ goods'.usd = goods.usd /\ goods'.trust = e[2]
      BY <1>3, <3>1, <3>2, <3>3 DEF GoodsStates
    <3>5. OwnedOnce("add_trust", goods.trust)'
      BY <1>1, <1>5, <3>2, <3>4 DEF OwnedOnce
    <3> QED BY <1>5, <1>6, <1>7, <1>8, <1>10, <1>12, <3>1, <3>4, <3>5 DEF QuestInv
  <2>3. CASE e[1] = "complete_quest"
    <3>1. UNCHANGED goods /\ NothingShown /\ UNCHANGED phaser
      BY <1>2, <2>3 DEF StoreEffects, StoreEffect
    <3> QED BY <1>5, <1>6, <1>10, <1>11, <1>12, <3>1 DEF QuestInv
  <2>4. CASE e[1] \notin StoreEffects /\ ~phaser.wired
    <3>1. UNCHANGED goods /\ NothingShown /\ UNCHANGED phaser
      BY <1>2, <2>4 DEF Unpaid
    <3> QED BY <1>5, <1>6, <1>10, <1>11, <1>12, <3>1 DEF QuestInv
  <2>5. CASE e[1] \notin StoreEffects /\ phaser.wired
    <3>0. BridgeEffect(e)
      BY <1>2, <2>5
    <3>1. CASE e[1] = "play_cinematic"
      <4>1. PlayCinematic
        BY <3>0, <3>1 DEF BridgeEffect
      <4>2. /\ phaser' \in PhaserStates /\ screen' \in ScreenStates /\ LobbyPausedForCinematic'
        <5>1. CASE phaser.lobby # "active"
          BY <1>3, <4>1, <5>1 DEF PlayCinematic, LobbyPausedForCinematic, QuestInv
        <5>2. CASE phaser.lobby = "active"
          <6>1. /\ phaser' = [phaser EXCEPT !.lobby = "paused", !.cine = TRUE]
                /\ screen' = [screen EXCEPT !.cinematic = TRUE]
            BY <4>1, <5>2 DEF PlayCinematic
          <6>2. phaser' \in PhaserStates /\ phaser'.lobby = "paused" /\ phaser'.cine
            BY <1>3, <6>1 DEF PhaserStates
          <6>3. screen' \in ScreenStates
            BY <1>3, <6>1 DEF ScreenStates
          <6> QED BY <6>2, <6>3 DEF LobbyPausedForCinematic
        <5> QED BY <5>1, <5>2
      <4>3. UNCHANGED goods /\ dialogue' \in DialogueStates
        BY <1>3, <4>1 DEF PlayCinematic, Unpaid
      <4> QED BY <1>5, <1>6, <1>11, <4>2, <4>3 DEF QuestInv
    <3>2. CASE e[1] = "award_item"
      <4>1. Award(e[2])
        BY <3>0, <3>2 DEF BridgeEffect
      <4>2. <<s, n>> \in PlacesOf("award_item") /\ e[2] \in Items
        BY <1>1, <1>5, <3>2, PlacesOfKind, QuestAssumption
      <4>3. goods.items[e[2]] = 0
        <5> SUFFICES ASSUME goods.items[e[2]] # 0 PROVE FALSE
          OBVIOUS
        <5>1. goods.items[e[2]] \in Nat
          BY <1>3, <4>2 DEF GoodsStates
        <5>2. PICK p \in PlacesOf("award_item") : EffectAt(p)[2] = e[2] /\ Given(p)
          BY <1>3, <4>2, <5>1 DEF ItemsOnce
        <5>3. p = <<s, n>>
          BY <1>1, <4>2, <5>2, QuestAssumption
        <5> QED BY <1>5, <5>2, <5>3
      <4>4. /\ goods' \in GoodsStates /\ goods'.items[e[2]] = 1
            /\ \A i \in Items : i # e[2] => goods'.items[i] = goods.items[i]
            /\ goods'.usd = goods.usd /\ goods'.trust = goods.trust
        <5> DEFINE satchel == [goods.items EXCEPT ![e[2]] = goods.items[e[2]] + 1]
        <5>1. goods.items \in [Items -> Nat]
          BY <1>3 DEF GoodsStates
        <5>2. /\ satchel \in [Items -> Nat] /\ satchel[e[2]] = 1
              /\ \A i \in Items : i # e[2] => satchel[i] = goods.items[i]
          BY <4>2, <4>3, <5>1
        <5>3. goods' = [goods EXCEPT !.items = satchel]
          BY <4>1 DEF Award
        <5> HIDE DEF satchel
        <5>4. /\ goods' \in GoodsStates /\ goods'.items = satchel
              /\ goods'.usd = goods.usd /\ goods'.trust = goods.trust
          BY <1>3, <5>2, <5>3 DEF GoodsStates
        <5> QED BY <5>2, <5>4
      <4>5. ItemsOnce'
        <5> SUFFICES ASSUME NEW i \in Items
                     PROVE  /\ goods'.items[i] <= 1
                            /\ goods'.items[i] > 0 =>
                                 \E p \in PlacesOf("award_item") : EffectAt(p)[2] = i /\ Given(p)'
          BY DEF ItemsOnce
        <5>1. CASE i = e[2]
          BY <1>1, <1>5, <4>2, <4>4, <5>1
        <5>2. CASE i # e[2]
          BY <1>3, <1>5, <4>4, <5>2, PlacesOfKind DEF ItemsOnce
        <5> QED BY <5>1, <5>2
      <4>6. NoticeUnderWay'
        <5>1. trigger' = Trigger(<<"item_acquired", e[2]>>, 0)
          BY <4>1 DEF Award
        <5> SUFFICES ASSUME NEW i \in Items, quest'.status = "active", quest'.step < Len(Steps),
                            goods'.items[i] > 0, Steps[quest'.step + 1].on = <<"item_acquired", i>>
                     PROVE  i = e[2]
          BY <5>1 DEF NoticeUnderWay
        <5>2. CASE i # e[2]
          <6>1. goods.items[i] > 0
            BY <4>4, <5>2
          <6> QED BY <1>2, <1>4, <6>1, NothingIsDue DEF QuestInv
        <5> QED BY <5>2
      <4>7. UNCHANGED phaser /\ dialogue' \in DialogueStates /\ screen' \in ScreenStates
        BY <1>3, <4>1 DEF Award
      <4> QED BY <1>5, <1>6, <1>8, <1>9, <1>10, <4>4, <4>5, <4>6, <4>7 DEF QuestInv
    <3>3. CASE e[1] = "add_currency"
      <4>1. /\ goods' = [goods EXCEPT !.usd = @ + e[2]] /\ NothingShown /\ UNCHANGED phaser
        BY <3>0, <3>3 DEF BridgeEffect
      <4>2. <<s, n>> \in PlacesOf("add_currency") /\ e[2] \in Nat
        BY <1>1, <1>5, <3>3, PlacesOfKind, QuestAssumption
      <4>3. goods.usd = 0
        <5> SUFFICES ASSUME goods.usd # 0 PROVE FALSE
          OBVIOUS
        <5>1. PICK p \in PlacesOf("add_currency") : Given(p)
          BY <1>3 DEF OwnedOnce
        <5>2. p = <<s, n>>
          BY <4>2, <5>1, QuestAssumption
        <5> QED BY <1>5, <5>1, <5>2
      <4>4. /\ goods' \in GoodsStates /\ goods'.items = goods.items
            /\ goods'.usd = e[2] /\ goods'.trust = goods.trust
        BY <1>3, <4>1, <4>2, <4>3 DEF GoodsStates
      <4>5. OwnedOnce("add_currency", goods.usd)'
        BY <1>1, <1>5, <4>2, <4>4 DEF OwnedOnce
      <4> QED BY <1>5, <1>6, <1>7, <1>9, <1>10, <1>12, <4>1, <4>4, <4>5 DEF QuestInv
    <3>4. CASE e[1] = "open_dialogue"
      <4>1. MoveTo(Opened(e[2], e[3]), NoTrigger) /\ UNCHANGED goods /\ UNCHANGED phaser
        BY <3>0, <3>4 DEF BridgeEffect, Unpaid
      <4>2. <<s, n>> \in PlacesOf("open_dialogue")
        BY <1>1, <1>5, <3>4, PlacesOfKind
      <4>3. Opened(e[2], e[3]) \in DialogueStates
        BY <1>1, <4>2, NodesAreStates, QuestAssumption
      <4>4. dialogue' \in DialogueStates /\ screen' \in ScreenStates
        BY <1>3, <4>1, <4>3, MoveIsTyped
      <4> QED BY <1>5, <1>6, <1>10, <1>11, <4>1, <4>4 DEF QuestInv
    <3>5. CASE e[1] = "stream_apollo_response"
      <4>1. /\ dialogue' = [dialogue EXCEPT !.streaming = TRUE]
            /\ UNCHANGED goods /\ UNCHANGED phaser /\ screen' \in ScreenStates
        BY <1>3, <3>0, <3>5 DEF BridgeEffect, Unpaid
      <4>2. dialogue' \in DialogueStates
        BY <1>3, <4>1 DEF DialogueStates
      <4> QED BY <1>5, <1>6, <1>10, <1>11, <4>1, <4>2 DEF QuestInv
    <3>6. CASE e[1] \notin {"play_cinematic", "award_item", "add_currency", "open_dialogue",
                            "stream_apollo_response"}
      <4>1. UNCHANGED goods /\ NothingShown /\ UNCHANGED phaser
        BY <3>0, <3>6 DEF BridgeEffect, Unpaid
      <4> QED BY <1>5, <1>6, <1>10, <1>11, <1>12, <4>1 DEF QuestInv
    <3> QED BY <3>1, <3>2, <3>3, <3>4, <3>5, <3>6
  <2> QED BY <2>1, <2>2, <2>3, <2>4, <2>5 DEF StoreEffects

\* What the outermost caller does when its trigger has returned.
LEMMA CallerKeeps ==
  ASSUME QuestInv, CallerGoesOn
  PROVE  QuestInv'
<1>1. /\ PlayTypeOK /\ dialogue \in DialogueStates /\ screen \in ScreenStates /\ phaser \in PhaserStates
      /\ caller.of \in {"film", "report", "greet"}
  BY DEF QuestInv, PlayTypeOK, CallerGoesOn
<1>2. /\ trigger = NoTrigger /\ caller' = NoCaller /\ UNCHANGED <<quest, goods, frames>>
  BY DEF CallerGoesOn
<1>3. /\ FramesInv' /\ ItemsOnce' /\ NoticeUnderWay'
      /\ OwnedOnce("add_currency", goods.usd)' /\ OwnedOnce("add_trust", goods.trust)'
  BY <1>2, OwnedStays
<1>4. /\ dialogue' \in DialogueStates /\ screen' \in ScreenStates /\ phaser' \in PhaserStates
      /\ LobbyPausedForCinematic'
  <2>1. CASE caller.of = "film"
    <3>1. /\ screen' = [screen EXCEPT !.cinematic = FALSE] /\ UNCHANGED dialogue
          /\ phaser' = [phaser EXCEPT !.lobby = "active", !.cine = FALSE]
      BY <2>1 DEF CallerGoesOn
    <3> QED BY <1>1, <3>1 DEF ScreenStates, PhaserStates, LobbyPausedForCinematic
  <2>2. CASE caller.of = "report"
    <3>1. /\ \/ UNCHANGED <<screen, dialogue>>
             \/ /\ screen' = [screen EXCEPT !.unseen = FALSE]
                /\ dialogue' = [dialogue EXCEPT !.pending = <<>>]
          /\ UNCHANGED phaser
      BY <2>2 DEF CallerGoesOn
    <3>2. dialogue' \in DialogueStates /\ screen' \in ScreenStates
      BY <1>1, <3>1 DEF DialogueStates, ScreenStates
    <3> QED BY <1>1, <3>1, <3>2 DEF QuestInv, LobbyPausedForCinematic
  <2>3. CASE caller.of = "greet"
    <3> DEFINE d == Opened("treasurer_greet", Dialogues["treasurer_greet"].start)
    <3>1. MoveTo(d, NoTrigger) /\ UNCHANGED phaser
      BY <2>3 DEF CallerGoesOn
    <3>2. d \in DialogueStates
      BY NodesAreStates, DialoguesAssumption
    <3> HIDE DEF d
    <3>3. dialogue' \in DialogueStates /\ screen' \in ScreenStates
      BY <1>1, <3>1, <3>2, MoveIsTyped
    <3> QED BY <1>1, <3>1, <3>3 DEF QuestInv, LobbyPausedForCinematic
  <2> QED BY <1>1, <2>1, <2>2, <2>3
<1>5. PlayTypeOK'
  BY <1>1, <1>2, <1>4 DEF PlayTypeOK, level
<1> QED BY <1>3, <1>4, <1>5 DEF QuestInv

\* An event that moves the canvas or the dialogue and may fire a trigger.
LEMMA EventKeeps ==
  ASSUME QuestInv, AtRest, UNCHANGED <<quest, goods, frames>>,
         dialogue' \in DialogueStates, screen' \in ScreenStates, phaser' \in PhaserStates,
         caller' # NoCaller => caller'.of \in {"film", "report", "greet"}, LobbyPausedForCinematic'
  PROVE  QuestInv'
<1>1. trigger = NoTrigger
  BY DEF AtRest
<1>2. PlayTypeOK'
  BY DEF QuestInv, PlayTypeOK, level
<1> QED BY <1>1, <1>2, OwnedStays DEF QuestInv

\* The same for a move to a node that exists.
LEMMA GoToKeeps ==
  ASSUME QuestInv, AtRest, NEW node, IsNode(dialogue.id, node), NEW t, GoTo(node, t)
  PROVE  QuestInv'
<1> DEFINE d == [dialogue EXCEPT !.node = node, !.pending = Dialogues[dialogue.id].nodes[node].effects]
<1>1. PlayTypeOK /\ dialogue \in DialogueStates /\ phaser \in PhaserStates
  BY DEF QuestInv, PlayTypeOK
<1>2. d \in DialogueStates
  BY <1>1, NodesAreStates
<1>3. MoveTo(d, t) /\ UNCHANGED <<quest, goods, phaser, frames, caller>>
  BY DEF GoTo, ThenNothing
<1> HIDE DEF d
<1>4. dialogue' \in DialogueStates /\ screen' \in ScreenStates
  BY <1>1, <1>2, <1>3, MoveIsTyped
<1>5. caller' # NoCaller => caller'.of \in {"film", "report", "greet"}
  BY <1>3 DEF QuestInv, PlayTypeOK
<1>6. LobbyPausedForCinematic'
  BY <1>3 DEF QuestInv, LobbyPausedForCinematic
<1>7. phaser' \in PhaserStates
  BY <1>1, <1>3
<1> QED BY <1>3, <1>4, <1>5, <1>6, <1>7, EventKeeps

\* The events: the canvas, the player and the overlay.
LEMMA EventsKeep ==
  ASSUME QuestInv,
         \/ MountCanvas \/ UnmountCanvas \/ LobbyReady \/ \E npc \in NpcIds : Interact(npc)
         \/ EnterCaravanZone \/ FinishCinematic \/ ReportNode \/ FinishTyping \/ CloseDialogue
  PROVE  QuestInv'
<1>1. /\ PlayTypeOK /\ dialogue \in DialogueStates /\ screen \in ScreenStates /\ phaser \in PhaserStates
      /\ LobbyPausedForCinematic
      /\ caller # NoCaller => caller.of \in {"film", "report", "greet"}
  BY DEF QuestInv, PlayTypeOK
<1>2. AtRest /\ UNCHANGED <<quest, goods, frames>>
  BY DEF MountCanvas, UnmountCanvas, LobbyReady, Interact, EnterCaravanZone, FinishCinematic, ReportNode,
         FinishTyping, CloseDialogue, Shown, Fires, callVars, storeVars
<1> USE <1>1, <1>2 DEF PhaserStates, LobbyPausedForCinematic
<1>3. CASE MountCanvas
  BY <1>3, EventKeeps DEF MountCanvas, callVars
<1>4. CASE UnmountCanvas
  <2>1. screen' \in ScreenStates
    BY <1>4 DEF UnmountCanvas, ScreenStates
  <2> QED BY <1>4, <2>1, EventKeeps DEF UnmountCanvas, callVars
<1>5. CASE LobbyReady
  BY <1>5, EventKeeps DEF LobbyReady, callVars
<1>6. ASSUME NEW npc \in NpcIds, Interact(npc) PROVE QuestInv'
  <2>1. phaser' = [phaser EXCEPT !.talkedTo = npc] /\ UNCHANGED <<dialogue, screen>>
    BY <1>6 DEF Interact
  <2>2. caller' # NoCaller => caller'.of \in {"film", "report", "greet"}
    BY <1>6 DEF Interact, Fires, TreasurerHears
  <2> QED BY <2>1, <2>2, EventKeeps
<1>7. CASE EnterCaravanZone
  BY <1>7, EventKeeps DEF EnterCaravanZone, Fires
<1>8. CASE FinishCinematic
  BY <1>8, EventKeeps DEF FinishCinematic, Fires, NoCaller, storeVars
<1>9. CASE ReportNode
  <2>1. UNCHANGED <<dialogue, screen, phaser>> /\ caller'.of = "report"
    BY <1>9 DEF ReportNode, Fires, storeVars
  <2> QED BY <2>1, EventKeeps
<1>10. CASE FinishTyping
  BY <1>10, EventKeeps DEF FinishTyping, callVars, ScreenStates
<1>11. CASE CloseDialogue
  <2>1. NoDialogue \in DialogueStates
    BY DEF NoDialogue, DialogueStates
  <2>2. screen' \in ScreenStates
    BY <1>11, DialoguesAssumption DEF CloseDialogue, Rerender, ScreenStates
  <2> QED BY <1>11, <2>1, <2>2, EventKeeps DEF CloseDialogue, callVars
<1> QED BY <1>3, <1>4, <1>5, <1>6, <1>7, <1>8, <1>9, <1>10, <1>11

\* The ways a dialogue goes on lead to nodes that exist.
LEMMA DialogueGoesOn ==
  ASSUME QuestInv, (\E i \in 1..3 : SelectChoice(i)) \/ Continue \/ SubmitChallenge
  PROVE  QuestInv'
<1>1. AtRest /\ dialogue.id # "none" /\ dialogue \in DialogueStates
  BY DEF QuestInv, PlayTypeOK, SelectChoice, Continue, SubmitChallenge, Shown
<1>2. IsNode(dialogue.id, dialogue.node)
  BY <1>1 DEF DialogueStates
<1>3. /\ NodeOf(dialogue).submit # "none" => IsNode(dialogue.id, NodeOf(dialogue).submit)
      /\ NodeOf(dialogue).next # "none" => IsNode(dialogue.id, NodeOf(dialogue).next)
      /\ \A i \in 1..Len(NodeOf(dialogue).choices) : IsNode(dialogue.id, NodeOf(dialogue).choices[i].next)
  BY <1>2, DialoguesAssumption DEF IsNode, NodeOf
<1>4. ASSUME NEW i \in 1..3, SelectChoice(i) PROVE QuestInv'
  BY <1>1, <1>3, <1>4, GoToKeeps DEF SelectChoice, VisibleChoices
<1>5. CASE Continue
  BY <1>1, <1>3, <1>5, GoToKeeps DEF Continue
<1>6. CASE SubmitChallenge
  BY <1>1, <1>3, <1>6, GoToKeeps DEF SubmitChallenge
<1> QED BY <1>4, <1>5, <1>6

LEMMA QuestStart == PlayInit => QuestInv
<1> SUFFICES ASSUME PlayInit PROVE QuestInv
  OBVIOUS
<1>1. /\ quest = QuestStarted /\ dialogue = NoDialogue /\ frames = <<>> /\ caller = NoCaller /\ trigger = NoTrigger
      /\ goods = [items |-> [i \in Items |-> 0], usd |-> 0, trust |-> 0, worlds |-> {}]
      /\ screen = [cinematic |-> FALSE, typed |-> FALSE, unseen |-> FALSE]
      /\ phaser = [wired |-> FALSE, lobby |-> "off", cine |-> FALSE,
                   zoneEntered |-> FALSE, mounts |-> 0, talkedTo |-> "none"]
  BY DEF PlayInit
<1>2. quest \in QuestStates /\ goods \in GoodsStates
  BY <1>1, QuestAssumption DEF QuestStarted, GoodsStates
<1>3. dialogue \in DialogueStates
  BY <1>1 DEF NoDialogue, DialogueStates
<1>4. screen \in ScreenStates /\ phaser \in PhaserStates
  BY <1>1 DEF ScreenStates, PhaserStates
<1>5. frames \in Seq(CallFrames) /\ level = 0 /\ level <= MAX_TRIGGER_DEPTH
  BY <1>1, QuestAssumption, EmptySeq DEF level
<1>6. FramesInv
  BY <1>5 DEF FramesInv
<1>7. ItemsOnce /\ NoticeUnderWay /\ OwnedOnce("add_currency", goods.usd) /\ OwnedOnce("add_trust", goods.trust)
  BY <1>1 DEF ItemsOnce, NoticeUnderWay, OwnedOnce
<1>8. LobbyPausedForCinematic
  BY <1>1 DEF LobbyPausedForCinematic
<1> QED BY <1>1, <1>2, <1>3, <1>4, <1>5, <1>6, <1>7, <1>8 DEF QuestInv, PlayTypeOK

LEMMA QuestStep == QuestInv /\ [PlayNext]_playVars => QuestInv'
<1> SUFFICES ASSUME QuestInv, [PlayNext]_playVars PROVE QuestInv'
  OBVIOUS
<1>1. CASE FireTrigger
  BY <1>1, FireKeeps
<1>2. CASE ApplyEffect
  BY <1>2, ApplyKeeps
<1>3. CASE TriggerReturns
  BY <1>3, ReturnKeeps
<1>4. CASE CallerGoesOn
  BY <1>4, CallerKeeps
<1>5. CASE \/ MountCanvas \/ UnmountCanvas \/ LobbyReady \/ \E npc \in NpcIds : Interact(npc)
           \/ EnterCaravanZone \/ FinishCinematic \/ ReportNode \/ FinishTyping \/ CloseDialogue
  BY <1>5, EventsKeep
<1>6. CASE (\E i \in 1..3 : SelectChoice(i)) \/ Continue \/ SubmitChallenge
  BY <1>6, DialogueGoesOn
<1>7. CASE UNCHANGED playVars
  <2>1. UNCHANGED <<quest, goods, dialogue, screen, phaser, trigger, frames, caller>> /\ level' = level
    BY <1>7 DEF playVars, storeVars, callVars, level
  <2>2. \A p : Given(p)' <=> Given(p)
    BY <2>1 DEF Given
  <2> QED BY <2>1, <2>2 DEF QuestInv, PlayTypeOK, FramesInv, ItemsOnce, OwnedOnce, NoticeUnderWay,
                          LobbyPausedForCinematic
<1> QED BY <1>1, <1>2, <1>3, <1>4, <1>5, <1>6, <1>7 DEF PlayNext

LEMMA QuestInvPromises == QuestInv => QuestPaysOnce
<1> SUFFICES ASSUME QuestInv PROVE QuestPaysOnce
  OBVIOUS
<1>1. AwardNeverMissed
  BY NothingIsDue DEF QuestInv, AwardNeverMissed, AtRest
<1>2. RewardsPaidOnce
  BY DEF QuestInv, ItemsOnce, OwnedOnce, RewardsPaidOnce, PaidAtMostOnce
<1> QED BY <1>1, <1>2 DEF QuestInv, QuestPaysOnce

(* The promises of the quest (questStore, gameBridge, questRunner) hold for
   any quest, dialogues and villagers: each reward is paid at most once, a
   step that waits for an award has seen it, the lobby is paused exactly for
   its cinematic, and the stores keep their types. *)
THEOREM QuestPays == PlaySpec => []QuestPaysOnce
<1>1. PlaySpec => []QuestInv
  BY QuestStart, QuestStep, PTL DEF PlaySpec
<1> QED BY <1>1, QuestInvPromises, PTL

=============================================================================
