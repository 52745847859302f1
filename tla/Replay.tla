------------------------------- MODULE Replay -------------------------------
(***************************************************************************)
(* LumioReplay: the player of a cached trace.  Play schedules one timer    *)
(* per step, one per event and a final one, all counted from the moment of *)
(* the click; pause, reset and seek clear them.  The speed divides every   *)
(* delay alike and the artifacts are contents: both are left out.          *)
(***************************************************************************)
EXTENDS Naturals, Sequences, FiniteSets

CONSTANTS
  StepStarts,  \* steps[i].started_at, as offsets from the start of the run
  StepEnds,    \* steps[i].ended_at
  EventTimes,  \* event_stream[i].occurred_at, in order
  Duration,    \* total_duration_ms; the final timer is 50 ms later
  PLAYS        \* bounds the clicks on Play

ReplaySteps == DOMAIN StepStarts
ReplayEvents == DOMAIN EventTimes

ASSUME ReplayAssumption ==
  /\ {StepStarts, StepEnds, EventTimes} \subseteq Seq(Nat) /\ Duration \in Nat
  /\ DOMAIN StepEnds = ReplaySteps /\ ReplaySteps # {}
  /\ \A i \in ReplaySteps : StepStarts[i] \in 0..StepEnds[i] /\ StepEnds[i] <= Duration
  /\ \A i, j \in ReplaySteps : i < j => StepStarts[i] <= StepStarts[j]
  /\ \A i \in ReplayEvents : EventTimes[i] \in 0..Duration
  /\ \A i, j \in ReplayEvents : i < j => EventTimes[i] <= EventTimes[j]

VARIABLES
  player,   \* [status, step, emitted, auto]: the component's state and its autoStart prop
  pending,  \* the timers in timeoutsRef: [play, kind, i, at]
  playNo    \* the number of times Play has scheduled timers

replayVars == <<player, pending, playNo>>

ReplayInit ==
  /\ player \in [status : {"loading"}, step : {1}, emitted : {0}, auto : BOOLEAN]
  /\ pending = {} /\ playNo = 0

TraceThere == player.status \notin {"loading", "error"}

\* The timers of one play, as its three loops schedule them.
TimersOf(n) ==
  {[play |-> n, kind |-> "step", i |-> i, at |-> StepStarts[i]] : i \in ReplaySteps}
  \cup {[play |-> n, kind |-> "event", i |-> i, at |-> EventTimes[i]] : i \in ReplayEvents}
  \cup {[play |-> n, kind |-> "final", i |-> 1, at |-> Duration + 1]}

\* Timers with one delay fire in the order they were set: steps, then events.
LoopOrder == [step |-> 1, event |-> 2, final |-> 3]
FiresBefore(t, u) ==
  \/ t.at < u.at
  \/ t.at = u.at /\ LoopOrder[t.kind] < LoopOrder[u.kind]
  \/ t.at = u.at /\ t.kind = u.kind /\ t.i < u.i

\* The browser's next timer of a play.
NextOf(n) == {t \in pending : t.play = n /\ \A u \in pending : u.play = n => t = u \/ FiresBefore(t, u)}

\* play(): ignored while playing.
PlayFrom(shown) ==
  /\ playNo < PLAYS
  /\ player' = [shown EXCEPT !.status = "playing"]
  /\ pending' = pending \cup TimersOf(playNo + 1)
  /\ playNo' = playNo + 1

WasReset(shown) == [shown EXCEPT !.status = "ready", !.step = 1, !.emitted = 0]

\* setStatus('ready'); with autoStart the effect on the status plays at once.
TraceLoads ==
  /\ player.status = "loading"
  /\ LET ready == [player EXCEPT !.status = "ready"]
     IN IF player.auto THEN PlayFrom(ready) ELSE player' = ready /\ UNCHANGED <<pending, playNo>>

TraceFails ==
  /\ player.status = "loading"
  /\ player' = [player EXCEPT !.status = "error"]
  /\ UNCHANGED <<pending, playNo>>

RetryLoad ==
  /\ player.status = "error"
  /\ player' = [player EXCEPT !.status = "loading"]
  /\ UNCHANGED <<pending, playNo>>

\* The Play button; on a finished replay it resets first.
ClickPlay ==
  /\ player.status \in {"ready", "paused", "complete"}
  /\ PlayFrom(IF player.status = "complete" THEN WasReset(player) ELSE player)

Pause ==
  /\ player.status = "playing"
  /\ player' = [player EXCEPT !.status = "paused"]
  /\ pending' = {} /\ UNCHANGED playNo

\* reset(): clears the timers; with autoStart the effect plays again.
Reset ==
  /\ TraceThere
  /\ IF player.auto
     THEN /\ playNo < PLAYS
          /\ player' = [WasReset(player) EXCEPT !.status = "playing"]
          /\ pending' = TimersOf(playNo + 1) /\ playNo' = playNo + 1
     ELSE player' = WasReset(player) /\ pending' = {} /\ UNCHANGED playNo

EventsUntil(time) == Cardinality({i \in ReplayEvents : EventTimes[i] <= time})

\* seekTo(): the list offers only existing steps, so the clamp does nothing.
SeekTo(step) ==
  /\ TraceThere
  /\ player' = [player EXCEPT !.status = "paused", !.step = step, !.emitted = EventsUntil(StepEnds[step])]
  /\ pending' = {} /\ UNCHANGED playNo

\* What a timer's callback does; pausedRef is set only where the timers are cleared too.
Fired(t) ==
  CASE t.kind = "step" -> [player EXCEPT !.step = t.i]
    [] t.kind = "event" -> [player EXCEPT !.emitted = t.i]
    [] t.kind = "final" -> [player EXCEPT !.status = "complete"]

TimerFires(n) ==
  \E t \in NextOf(n) : player' = Fired(t) /\ pending' = pending \ {t} /\ UNCHANGED playNo

\* The modal that holds the player closes: the effect's cleanup clears the timers.
CloseReplay ==
  /\ player' = [player EXCEPT !.status = "loading", !.step = 1, !.emitted = 0]
  /\ pending' = {} /\ UNCHANGED playNo

ReplayNext ==
  \/ TraceLoads \/ TraceFails \/ RetryLoad \/ ClickPlay \/ Pause \/ Reset \/ CloseReplay
  \/ \E step \in ReplaySteps : SeekTo(step)
  \/ \E n \in 1..playNo : TimerFires(n)

ReplaySpec == ReplayInit /\ [][ReplayNext]_replayVars
-----------------------------------------------------------------------------
\* Timers are pending exactly while the player plays, and all of them were set by the last
\* click: no pause, seek, reset or close leaves one behind to move the display later.
OneReplayAtATime ==
  /\ pending # {} <=> player.status = "playing"
  /\ \A t \in pending : t.play = playNo

\* A replay that reports completion has shown its last step and every event (finalDelay).
CompletesWithEverything ==
  player.status = "complete" => player.step = Len(StepStarts) /\ player.emitted = Len(EventTimes)

=============================================================================
