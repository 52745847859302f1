------------------------------- MODULE Audio -------------------------------
(***************************************************************************)
(* The audio engine: one ambient loop at a time with cross-fades, the      *)
(* one-shot cues and the music, the volumes and the mute of the audio      *)
(* store, the subscriptions to the game's event bus and the gate that asks *)
(* for the first gesture.  A cue has one Howl, which plays any number of   *)
(* sounds; a loop that fades out is stopped by a timer of its own.         *)
(***************************************************************************)
EXTENDS Naturals, FiniteSets

CONSTANTS
  AmbientCues, \* the looping cues
  NoCue,       \* no ambient loop
  SOUNDS       \* bound: ambient sounds started

ASSUME AudioAssumption == NoCue \notin AmbientCues /\ SOUNDS \in Nat \ {0}

VARIABLES
  engine,  \* the AudioEngine: [unlocked, bus, current, id, volume]; volume of the current loop
  sounds,  \* Howler: the ambient sounds that play, [cue, id]
  timers,  \* stops to come after a fade-out, [cue, id]
  mixer,   \* audioStore: [master, ambient, muted, intent]; a volume is 0 or 1
  music,   \* a music cue plays
  gate,    \* AudioInitGate shows
  started  \* ambient sounds started so far

audioVars == <<engine, sounds, timers, mixer, music, gate, started>>

NoAmbient(e) == [e EXCEPT !.current = NoCue, !.id = 0, !.volume = 0]
Effective(m) == IF m.muted THEN 0 ELSE m.master * m.ambient

AudioInit ==
  /\ engine = [unlocked |-> FALSE, bus |-> FALSE, current |-> NoCue, id |-> 0, volume |-> 0]
  /\ sounds = {} /\ timers = {} /\ music = FALSE /\ gate = TRUE /\ started = 0
  /\ mixer = [master |-> 1, ambient |-> 1, muted |-> FALSE, intent |-> NoCue]

Attached == engine.bus

AttachBus == /\ engine' = [engine EXCEPT !.bus = ~@] \* wireBridge, and its dispose
             /\ UNCHANGED <<sounds, timers, mixer, music, gate, started>>

\* The gate's gesture, or the first cue, whichever comes first.
Unlocked(e) == [e EXCEPT !.unlocked = TRUE]

UnlockGesture ==
  /\ gate /\ gate' = FALSE /\ engine' = Unlocked(engine)
  /\ UNCHANGED <<sounds, timers, mixer, music, started>>

StopLater == timers \union (IF engine.current = NoCue THEN {}
                            ELSE {[cue |-> engine.current, id |-> engine.id]})

PlayAmbient(cue) ==
  /\ Attached /\ gate' = FALSE
  /\ IF engine.current = cue
     THEN engine' = Unlocked(engine) /\ UNCHANGED <<sounds, timers, started>>
     ELSE /\ started < SOUNDS /\ started' = started + 1
          /\ sounds' = sounds \union {[cue |-> cue, id |-> started + 1]}
          /\ timers' = StopLater
          /\ engine' = [Unlocked(engine) EXCEPT !.current = cue, !.id = started + 1,
                                                !.volume = Effective(mixer)]
  /\ UNCHANGED <<mixer, music>>

StopAmbient ==
  /\ Attached /\ engine.current # NoCue
  /\ timers' = StopLater /\ engine' = NoAmbient(engine)
  /\ UNCHANGED <<sounds, mixer, music, gate, started>>

StoppedHowl(t) == {s \in sounds : s.cue = t.cue} \* stop() without the sound's id
StoppedSound(t) == {s \in sounds : s = t}

StopTimer(t) ==
  /\ t \in timers /\ timers' = timers \ {t}
  /\ sounds' = sounds \ StoppedSound(t)
  /\ UNCHANGED <<engine, mixer, music, gate, started>>

\* A one-shot cue unlocks the engine and leaves the loop alone; music plays until it is stopped.
PlayCue(isMusic) ==
  /\ Attached /\ gate' = FALSE /\ engine' = Unlocked(engine)
  /\ music' = (music \/ (isMusic /\ ~mixer.muted /\ mixer.master = 1))
  /\ UNCHANGED <<sounds, timers, mixer, started>>

StopMusic == /\ Attached /\ music /\ music' = FALSE
             /\ UNCHANGED <<engine, sounds, timers, mixer, gate, started>>

(***************************************************************************)
(* The store: once unlocked, every change reaches the current loop.  The   *)
(* intent (playAmbient and stopAmbient of the store) starts nothing.       *)
(***************************************************************************)
RefreshAmbientVolume(m) == Effective(m)

SetMixer(m) ==
  /\ m # mixer /\ mixer' = m
  /\ engine' = IF engine.unlocked /\ engine.current # NoCue
               THEN [engine EXCEPT !.volume = RefreshAmbientVolume(m)] ELSE engine
  /\ UNCHANGED <<sounds, timers, music, gate, started>>

SetVolume == \E v \in 0 .. 1 : \/ SetMixer([mixer EXCEPT !.master = v])
                               \/ ~mixer.muted /\ SetMixer([mixer EXCEPT !.ambient = v])
ToggleMute == SetMixer([mixer EXCEPT !.muted = ~@])
StoreAmbient == \E c \in AmbientCues \union {NoCue} : SetMixer([mixer EXCEPT !.intent = c])

\* dispose stops and unloads every Howl; the stops to come find nothing of theirs.
Dispose ==
  /\ engine.unlocked
  /\ engine' = [NoAmbient(engine) EXCEPT !.unlocked = FALSE, !.bus = FALSE]
  /\ sounds' = {} /\ music' = FALSE
  /\ UNCHANGED <<timers, mixer, gate, started>>

AudioNext ==
  \/ AttachBus \/ UnlockGesture \/ StopAmbient \/ StopMusic \/ Dispose
  \/ \E c \in AmbientCues : PlayAmbient(c)
  \/ \E t \in timers : StopTimer(t)
  \/ \E b \in BOOLEAN : PlayCue(b)
  \/ SetVolume \/ ToggleMute \/ StoreAmbient

AudioSpec == AudioInit /\ [][AudioNext]_audioVars

(***************************************************************************)
(* Properties.                                                             *)
(***************************************************************************)
AudioTypeOK ==
  /\ engine \in [unlocked : BOOLEAN, bus : BOOLEAN, current : AmbientCues \union {NoCue},
                 id : 0 .. SOUNDS, volume : 0 .. 1]
  /\ sounds \subseteq [cue : AmbientCues, id : 1 .. SOUNDS]
  /\ timers \subseteq [cue : AmbientCues, id : 1 .. SOUNDS]
  /\ mixer \in [master : 0 .. 1, ambient : 0 .. 1, muted : BOOLEAN,
                intent : AmbientCues \union {NoCue}]
  /\ music \in BOOLEAN /\ gate \in BOOLEAN /\ started \in 0 .. SOUNDS

\* Going back to a place before its loop has faded out starts a second sound of the same
\* Howl: the stop of the first never silences the second, and no loop is left to play on
\* without being the current one or having a stop to come.
OneLoopRemains ==
  /\ engine.current # NoCue => [cue |-> engine.current, id |-> engine.id] \in sounds
  /\ sounds \subseteq StopLater
\* The loop is heard at the volume the store asks for, and not at all while muted, through
\* every order of starts, fades and changes of the store.
LoopFollowsTheMixer == engine.current # NoCue => engine.volume = Effective(mixer)
=============================================================================
