------------------------------- MODULE Reveal -------------------------------
(***************************************************************************)
(* BlueprintReveal and the modal of the builder page that holds it: a      *)
(* virtual clock advanced by animation frames while it plays, the camera   *)
(* and the narration as functions of that clock, and the effects React     *)
(* runs after it has committed a render.  The clock is kept twice, in a    *)
(* ref the frames read and in the state the render shows; an effect copies *)
(* the state into the ref.  Zoom and texts are left out.                   *)
(***************************************************************************)
EXTENDS Integers, Sequences, FiniteSets

CONSTANTS
  Camera,   \* definition.camera_sequence: a sequence of [from, to]
  Beats,    \* definition.narration_overlay: a sequence of [from, to]
  NoBeat,   \* activeBeatIndex null
  DELTAS,   \* the distances between two frames
  TIME      \* bounds the time the reveal is open

ASSUME RevealAssumption ==
  /\ \A i \in DOMAIN Camera : Camera[i].from \in Nat /\ Camera[i].to \in Nat
  /\ \A i \in DOMAIN Beats : Beats[i].from \in Nat /\ Beats[i].to \in Nat
  /\ NoBeat \notin DOMAIN Beats /\ DELTAS \subseteq Nat /\ TIME \in Nat

VARIABLES
  bake,    \* the page: [open, playing]; playing outlives the modal
  clock,   \* [ref, state, shown, prev]: elapsedRef, elapsedMs, the render React committed last,
           \* and prevRafTimestampRef (-1 is null)
  effects, \* the effects of the last commit are still to run
  narrated, \* [beat, completed, calls]: the narration told last, completedRef, calls of onComplete
  passed   \* [now, played]: the time since the page opened, and the part of it that played

revealVars == <<bake, clock, effects, narrated, passed>>

NoTimestamp == -1
Rest == [ref |-> 0, state |-> 0, shown |-> 0, prev |-> NoTimestamp]

\* Entries that end before they start are skipped.
Cleaned(entries) == {i \in DOMAIN entries : entries[i].to > entries[i].from}

\* sortCameraSequences is stable: of the entries that start last, the last one listed.
LastShot == CHOOSE i \in Cleaned(Camera) : \A j \in Cleaned(Camera) :
              Camera[j].from < Camera[i].from \/ (Camera[j].from = Camera[i].from /\ j <= i)

\* evaluateCamera(...).completed
CameraCompleted(elapsed) == Cleaned(Camera) = {} \/ elapsed >= Camera[LastShot].to

\* findActiveNarration(...).activeBeatIndex: the beat that started last, the first one of a tie.
ActiveBeat(elapsed) ==
  LET active == {i \in Cleaned(Beats) : Beats[i].from <= elapsed /\ elapsed < Beats[i].to}
  IN IF active = {} THEN NoBeat
     ELSE CHOOSE i \in active : \A j \in active :
            Beats[j].from < Beats[i].from \/ (Beats[j].from = Beats[i].from /\ i <= j)

RevealInit ==
  /\ bake = [open |-> FALSE, playing |-> TRUE]
  /\ clock = Rest /\ effects = FALSE
  /\ narrated = [beat |-> NoBeat, completed |-> FALSE, calls |-> 0]
  /\ passed = [now |-> 0, played |-> 0]

\* didActiveBeatChange
BeatChanged(before, beat) == beat # before

\* The effect calls onComplete when the camera has completed, once per mount.
Completes(was, shown) == CameraCompleted(shown) /\ ~was.completed

\* The effects that a commit of the clock's state leaves behind, run on what it showed.
ToldAfter(was, shown) ==
  [beat |-> IF BeatChanged(was.beat, ActiveBeat(shown)) THEN ActiveBeat(shown) ELSE was.beat,
   completed |-> was.completed \/ CameraCompleted(shown),
   calls |-> was.calls + IF Completes(was, shown) THEN 1 ELSE 0]

\* The effect on elapsedMs copies it into the ref, whatever a later frame made of the ref.
Flushed(c) == [c EXCEPT !.ref = c.shown]

\* The first commit's effects: the clock is at zero and the loop starts.
OpenBake ==
  /\ ~bake.open /\ passed.now < TIME
  /\ bake' = [bake EXCEPT !.open = TRUE]
  /\ clock' = Rest /\ effects' = FALSE
  /\ narrated' = ToldAfter([beat |-> NoBeat, completed |-> FALSE, calls |-> 0], 0)
  /\ passed' = [passed EXCEPT !.played = 0]

\* The button, the backdrop or Escape; the loop and the clock go with the component.
CloseBake ==
  /\ bake.open
  /\ bake' = [bake EXCEPT !.open = FALSE]
  /\ effects' = FALSE
  /\ UNCHANGED <<clock, narrated, passed>>

\* tickVirtualClock
Ticked(c, now) == IF c.prev = NoTimestamp THEN c.ref ELSE c.ref + (now - c.prev)

\* loop: a frame comes; a frame that moves the clock sets the state too.
Frame(delta) ==
  LET now == passed.now + delta
      elapsed == Ticked(clock, now)
  IN /\ bake.open /\ bake.playing /\ now <= TIME
     /\ clock' = [clock EXCEPT !.prev = now, !.ref = elapsed,
                               !.state = IF elapsed = clock.ref THEN @ ELSE elapsed]
     /\ passed' = [now |-> now, played |-> passed.played + IF clock.prev = NoTimestamp THEN 0 ELSE delta]
     /\ UNCHANGED <<bake, effects, narrated>>

\* React renders the state: it first runs the effects of the commit before.
Commit ==
  /\ bake.open /\ clock.state # clock.shown
  /\ clock' = [(IF effects THEN Flushed(clock) ELSE clock) EXCEPT !.shown = clock.state]
  /\ narrated' = IF effects THEN ToldAfter(narrated, clock.shown) ELSE narrated
  /\ effects' = TRUE
  /\ UNCHANGED <<bake, passed>>

EffectsRun ==
  /\ bake.open /\ effects
  /\ clock' = Flushed(clock) /\ narrated' = ToldAfter(narrated, clock.shown)
  /\ effects' = FALSE
  /\ UNCHANGED <<bake, passed>>

LosesTimestamp(c) == [c EXCEPT !.prev = NoTimestamp]

\* The Play/Pause button.  A click renders at once and its effects run with it: what the frames
\* left in the state is shown, the loop's effect forgets the last timestamp.
TogglePlay ==
  /\ bake.open
  /\ LET before == IF effects THEN Flushed(clock) ELSE clock
         after == [before EXCEPT !.shown = before.state,
                                 !.ref = IF before.state # before.shown THEN before.state ELSE @]
     IN clock' = LosesTimestamp(after)
  /\ narrated' = ToldAfter(IF effects THEN ToldAfter(narrated, clock.shown) ELSE narrated, clock.state)
  /\ effects' = FALSE
  /\ bake' = [bake EXCEPT !.playing = ~@]
  /\ UNCHANGED passed

TimePasses(delta) ==
  /\ ~(bake.open /\ bake.playing) /\ passed.now + delta <= TIME
  /\ passed' = [passed EXCEPT !.now = @ + delta]
  /\ UNCHANGED <<bake, clock, effects, narrated>>

RevealNext ==
  \/ OpenBake \/ CloseBake \/ Commit \/ EffectsRun \/ TogglePlay
  \/ \E delta \in DELTAS : Frame(delta) \/ TimePasses(delta)

RevealSpec == RevealInit /\ [][RevealNext]_revealVars
-----------------------------------------------------------------------------
\* The clock never runs ahead of the time it has played: a pause, or the modal having been
\* closed, adds nothing to it (prevRafTimestampRef.current = null).
PausedTimeNotCounted == \A at \in {clock.ref, clock.state, clock.shown} : at <= passed.played

\* onComplete is called at most once for one opening, though the clock may step back when an
\* effect copies an older state over the ref (completedRef).
CompletedAtMostOnce == narrated.calls <= 1

\* Once the effects of the last commit have run, the beat reported last is the one on screen.
BeatToldIsShown == bake.open /\ ~effects => narrated.beat = ActiveBeat(clock.shown)
=============================================================================
