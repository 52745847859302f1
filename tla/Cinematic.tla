----------------------------- MODULE Cinematic -----------------------------
(***************************************************************************)
(* MiniBuilderCinematicScene: the reveal of the agent roster that plays    *)
(* over the paused village.  Everything is scheduled when the scene is     *)
(* created, some of it on tweens and some on timers, and the two clocks    *)
(* part: after a long frame a timer has caught up and a tween has not.     *)
(*                                                                         *)
(* Times are in milliseconds.  What is drawn is a set of cues; positions,  *)
(* colours and texts are left out.                                         *)
(***************************************************************************)
EXTENDS Integers, FiniteSets

CONSTANTS
  AGENTS,     \* entries of ROSTER, 22 in the code
  LoopTimes,  \* time.now of Phaser's loop when the scene is created
  Frames,     \* lengths of frames
  LAUNCHES    \* bound: cinematics played in one behaviour

ASSUME CinematicAssumption ==
  /\ AGENTS \in Nat \ {0} /\ LAUNCHES \in Nat
  /\ LoopTimes \subseteq Nat /\ Frames \subseteq Nat \ {0}

VARIABLES
  reveal,     \* [scene, startedAt, clock, tween, completed, endedBy, duration]
  lobbyScene, \* the scene behind it: "running" or "paused"
  cineEvents  \* game.cinematic.start and .complete events, and runs the canvas was lost in

cinematicVars == <<reveal, lobbyScene, cineEvents>>

T_NODE_SPAWN_START == 2400
T_NODE_SPAWN_END == 7200
T_CONNECTOR_START == 5200
T_MA_PULSE_START == 7800
T_CAMERA_START == 8800
T_FADE_OUT_START == 11200
T_FADE_OUT_END == 12000
T_TOTAL_MS == 12000

\* The roster is numbered in spawnOrder: advisor, leads, lane, workers.
Roster22 == 1..AGENTS

Delay(at, started) == IF at < started THEN 0 ELSE at - started

StepMs == (T_NODE_SPAWN_END - T_NODE_SPAWN_START) \div AGENTS
NodeDelayWhole(n, started) ==
  Delay(T_NODE_SPAWN_START + (n - 1) * (T_NODE_SPAWN_END - T_NODE_SPAWN_START), started)
NodeDelay(n, started) == Delay(T_NODE_SPAWN_START + (n - 1) * StepMs, started)

\* The delays of the first edges of the leads and of the others.
ConnectorDelay(kind, started) ==
  Delay(T_CONNECTOR_START + (IF kind = "leads" THEN 0 ELSE 300), started)
HighlightDelay(started) == Delay(T_MA_PULSE_START, started)
CameraDelay(started) == Delay(T_CAMERA_START, started)

\* Letterbox, dim and grid start with the scene.
OpeningDelay == 0

FadeOutEnds(started) == Delay(T_FADE_OUT_START, started) + (T_FADE_OUT_END - T_FADE_OUT_START)
FallbackAt == T_TOTAL_MS + 120

\* startMs and endMs of NARRATION; the last beat is not faded out.
Narration == <<[start |-> 700, end |-> 3400], [start |-> 3600, end |-> 7400],
               [start |-> 7600, end |-> 11000]>>
\* The text is that of the timer that fired last; timers due in one frame fire in
\* the order they were made.
BeatShown ==
  LET begun == {b \in DOMAIN Narration : Delay(Narration[b].start, reveal.startedAt) <= reveal.clock}
  IN IF begun = {} THEN 0 ELSE CHOOSE b \in begun : \A c \in begun : c <= b

AgentsShown == {n \in Roster22 : NodeDelay(n, reveal.startedAt) <= reveal.tween}
CuesShown ==
  LET s == reveal.startedAt
      due == [opening |-> OpeningDelay, leads |-> ConnectorDelay("leads", s),
              others |-> ConnectorDelay("others", s), highlight |-> HighlightDelay(s),
              camera |-> CameraDelay(s)]
  IN {c \in DOMAIN due : due[c] <= reveal.tween}

----------------------------------------------------------------------------

NoReveal == [scene |-> "none", startedAt |-> 0, clock |-> 0, tween |-> 0,
             completed |-> FALSE, endedBy |-> "nothing", duration |-> 0]

CinematicInit ==
  /\ reveal = NoReveal /\ lobbyScene = "running"
  /\ cineEvents = [start |-> 0, complete |-> 0, lost |-> 0]

\* init and create; gameBridge pauses the lobby when it launches the scene, and
\* ignores the effect while the lobby is not active.
CreateReveal(now) ==
  /\ reveal.scene \in {"none", "stopped"} /\ lobbyScene = "running"
  /\ cineEvents.start < LAUNCHES
  /\ reveal' = [NoReveal EXCEPT !.scene = "playing", !.startedAt = now]
  /\ lobbyScene' = "paused"
  /\ cineEvents' = [cineEvents EXCEPT !.start = @ + 1]

\* A tween's clock skips what a frame exceeds half a second by, and goes on by
\* a thirtieth of a second instead.
TweenStep(dt) == IF dt > 500 THEN 33 ELSE dt

FadeCompletes(r) == r.tween >= FadeOutEnds(r.startedAt)
FallbackFires(r) == r.clock >= FallbackAt

\* The fade and the fallback timer may come in one frame; finishCinematic returns
\* when `completed` is set.
FinishCount(r) == IF ~r.completed /\ (FadeCompletes(r) \/ FallbackFires(r)) THEN 1 ELSE 0

\* A frame; the stop that finishCinematic asks for is carried out by the next one.
RevealFrame(dt) ==
  /\ reveal.scene = "playing"
  /\ LET r == [reveal EXCEPT !.clock = @ + dt, !.tween = @ + TweenStep(dt)]
         n == FinishCount(r)
     IN /\ reveal' = IF n = 0 THEN r
                     ELSE [r EXCEPT !.scene = "stopping", !.completed = TRUE, !.duration = r.clock,
                                    !.endedBy = IF FadeCompletes(r) THEN "fade" ELSE "fallback"]
        /\ lobbyScene' = IF n = 0 THEN lobbyScene ELSE "running"
        /\ cineEvents' = [cineEvents EXCEPT !.complete = @ + n]

\* SHUTDOWN: teardownTimeline removes every tween and timer.
TeardownTimeline ==
  /\ reveal.scene = "stopping"
  /\ reveal' = [reveal EXCEPT !.scene = "stopped"]
  /\ UNCHANGED <<lobbyScene, cineEvents>>

\* The canvas is unmounted and mounted again: a new game, with no cinematic.
RemountGame ==
  /\ reveal.scene = "playing"
  /\ reveal' = NoReveal /\ lobbyScene' = "running"
  /\ cineEvents' = [cineEvents EXCEPT !.lost = @ + 1]

CinematicNext ==
  \/ \E now \in LoopTimes : CreateReveal(now)
  \/ \E dt \in Frames : RevealFrame(dt)
  \/ TeardownTimeline
  \/ RemountGame

CinematicSpec == CinematicInit /\ [][CinematicNext]_cinematicVars

----------------------------------------------------------------------------

\* Each cinematic that ends says so once, though the fade-out and the fallback
\* timer (scheduleCompletion) may both end it, even within one frame.
CompletedOncePerReveal ==
  cineEvents.complete + cineEvents.lost + (IF reveal.scene = "playing" THEN 1 ELSE 0) = cineEvents.start

\* The fade-out never ends a cinematic that has not shown all of its agents and
\* cues: NODE_SPAWN, CONNECTOR, MA_PULSE and CAMERA times come before it whenever
\* the scene was created.
EverythingShownBeforeTheFade ==
  reveal.endedBy = "fade" => AgentsShown = Roster22 /\ Cardinality(CuesShown) = 5 /\ BeatShown = 3

============================================================================
