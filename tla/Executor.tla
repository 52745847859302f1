------------------------------ MODULE Executor ------------------------------
(***************************************************************************)
(* A builder step run by a specialist executor.  The managed lane spawns a *)
(* session at the provider, reads its event stream across drops of the     *)
(* connection, and ends it; the stub lanes answer at once.  The provider   *)
(* is modelled from what the executor relies on: it produces frames, ends  *)
(* by itself within the task budget, and replays after Last-Event-ID.      *)
(***************************************************************************)
EXTENDS Naturals, FiniteSets

CONSTANTS
  RETRIES,    \* max_retries of a spawn
  RECONNECTS, \* max_reconnect_attempts of the event stream
  FRAMES      \* bound: frames a session produces before it ends

ASSUME ExecutorAssumption == RETRIES \in Nat /\ RECONNECTS \in Nat /\ FRAMES \in Nat

VARIABLES
  lane,     \* the executor that runs the step
  phase,    \* how far execute() has come
  tries,    \* attempts of the spawn that failed
  bridge,   \* MaSseBridge: [attempt, open, pos, last]; frames read and the last id seen
  session,  \* the provider: [run, frames, orphans, lostDelete]
  tracker,  \* SessionTracker: [counted, terminal]; how often each frame's usage was added
  bus,      \* events published: [started, tools, completed, failed]
  output    \* the status returned

executorVars == <<lane, phase, tries, bridge, session, tracker, bus, output>>

Lanes == {"anthropic_direct", "anthropic_managed", "gemini_stub", "higgsfield_stub"}
Ends == {"completed", "error", "budget"}  \* how a session ends by itself
Running == session.run = "running"

ExecutorInit ==
  /\ lane \in Lanes /\ phase = "start" /\ tries = 0 /\ output = "none"
  /\ bridge = [attempt |-> 0, open |-> FALSE, pos |-> 0, last |-> 0]
  /\ session = [run |-> "none", frames |-> 0, orphans |-> 0, lostDelete |-> FALSE]
  /\ tracker = [counted |-> [i \in 1 .. FRAMES |-> 0], terminal |-> "none"]
  /\ bus = [started |-> 0, tools |-> 0, completed |-> 0, failed |-> 0]

\* emit() is awaited and nothing catches it: a publish that rejects makes execute() throw.
Throw == phase' = "thrown" /\ UNCHANGED <<bus, output>>

\* Returning publishes the step's last event just before.
Finish(status) ==
  \/ /\ phase' = "done" /\ output' = status
     /\ bus' = IF status = "success" THEN [bus EXCEPT !.completed = @ + 1]
                                     ELSE [bus EXCEPT !.failed = @ + 1]
  \/ Throw

\* A warning about the budget, which may come first, is published by the same emit().
Execute ==
  /\ phase = "start"
  /\ \/ /\ phase' = (IF lane = "anthropic_managed" THEN "spawning" ELSE "answering")
        /\ bus' = [bus EXCEPT !.started = @ + 1] /\ UNCHANGED output
     \/ Throw
  /\ UNCHANGED <<lane, tries, bridge, session, tracker>>

StubAnswers ==
  /\ phase = "answering" /\ Finish(IF lane = "anthropic_direct" THEN "error" ELSE "success")
  /\ UNCHANGED <<lane, tries, bridge, session, tracker>>

(***************************************************************************)
(* The spawn: a POST that is sent again after a network failure, a 429 or  *)
(* a 5xx, whether or not the provider had made a session of it.            *)
(***************************************************************************)
Spawned ==
  /\ phase = "spawning" /\ phase' = "draining"
  /\ session' = [session EXCEPT !.run = "running"]
  /\ UNCHANGED <<lane, tries, bridge, tracker, bus, output>>

SpawnFails(made) ==
  /\ phase = "spawning"
  /\ session' = [session EXCEPT !.orphans = @ + made]
  /\ IF tries < RETRIES THEN tries' = tries + 1 /\ UNCHANGED <<phase, bus, output>>
                        ELSE Finish("error") /\ UNCHANGED tries
  /\ UNCHANGED <<lane, bridge, tracker>>

SpawnRefused == \* 403
  /\ phase = "spawning" /\ Finish("halt")
  /\ UNCHANGED <<lane, tries, bridge, session, tracker>>

SpawnMalformed == \* another status, or no session_id: not tried again
  /\ phase = "spawning" /\ Finish("error")
  /\ session' = [session EXCEPT !.orphans = @ + 1]
  /\ UNCHANGED <<lane, tries, bridge, tracker>>

(***************************************************************************)
(* The provider.                                                           *)
(***************************************************************************)
ProduceFrame ==
  /\ Running /\ session.frames < FRAMES /\ session' = [session EXCEPT !.frames = @ + 1]
  /\ UNCHANGED <<lane, phase, tries, bridge, tracker, bus, output>>

SessionEnds ==
  /\ Running /\ \E e \in Ends : session' = [session EXCEPT !.run = e]
  /\ UNCHANGED <<lane, phase, tries, bridge, tracker, bus, output>>

(***************************************************************************)
(* The bridge: attempts are counted over the whole session.                *)
(***************************************************************************)
Terminal(kind) == /\ tracker' = [tracker EXCEPT !.terminal = kind]
                  /\ phase' = IF kind \in {"completed", "closed"} THEN "pulling" ELSE "terminating"

RetryForever(b, t) == /\ bridge' = [b EXCEPT !.open = FALSE]
                      /\ tracker' = t /\ UNCHANGED phase

\* Its own ends are "lost" and "closed"; after a throw while b is the bridge and t the tracker.
Reconnect(b, t) ==
  IF b.attempt < RECONNECTS
  THEN /\ bridge' = [b EXCEPT !.open = FALSE, !.attempt = @ + 1]
       /\ tracker' = t /\ UNCHANGED phase
  ELSE /\ bridge' = [b EXCEPT !.open = FALSE]
       /\ tracker' = [t EXCEPT !.terminal = "lost"] /\ phase' = "terminating"

ResumeAt == bridge.last \* headersForStream(last_event_id)

StreamOpens ==
  /\ phase = "draining" /\ ~bridge.open
  /\ bridge' = [bridge EXCEPT !.open = TRUE, !.pos = ResumeAt]
  /\ UNCHANGED <<lane, phase, tries, session, tracker, bus, output>>

StreamRefused == \* 403
  /\ phase = "draining" /\ ~bridge.open /\ Terminal("lost")
  /\ UNCHANGED <<lane, tries, bridge, session, bus, output>>

StreamDrops == \* it does not open, or a read throws
  /\ phase = "draining" /\ Reconnect(bridge, tracker)
  /\ UNCHANGED <<lane, tries, session, bus, output>>

StreamCloses == \* the body ends without a last frame
  /\ phase = "draining" /\ bridge.open /\ Terminal("closed")
  /\ UNCHANGED <<lane, tries, bridge, session, bus, output>>

ReadFrame == [bridge EXCEPT !.pos = @ + 1, !.last = bridge.pos + 1]
Ingest == [tracker EXCEPT !.counted[bridge.pos + 1] = @ + 1]

\* A frame is a tool use with its usage: counted, then published; a publish that rejects is
\* caught as if the stream had dropped.
HandleSessionEvent ==
  /\ phase = "draining" /\ bridge.open /\ bridge.pos < session.frames
  /\ \/ /\ bridge' = ReadFrame /\ tracker' = Ingest
        /\ bus' = [bus EXCEPT !.tools = @ + 1] /\ UNCHANGED phase
     \/ Reconnect(ReadFrame, Ingest) /\ UNCHANGED bus
  /\ UNCHANGED <<lane, tries, session, output>>

LastFrame ==
  /\ phase = "draining" /\ bridge.open /\ bridge.pos = session.frames /\ session.run \in Ends
  /\ Terminal(session.run)
  /\ UNCHANGED <<lane, tries, bridge, session, bus, output>>

(***************************************************************************)
(* The end of execute().                                                   *)
(***************************************************************************)
Terminate == \* the DELETE is sent once; its failure is swallowed
  /\ phase = "terminating" /\ Finish(IF tracker.terminal = "budget" THEN "halt" ELSE "error")
  /\ IF ~Running THEN UNCHANGED session
     ELSE \/ session' = [session EXCEPT !.run = "deleted"]
          \/ session' = [session EXCEPT !.lostDelete = TRUE]
  /\ UNCHANGED <<lane, tries, bridge, tracker>>

PullOnly(status) == /\ phase = "pulling" /\ phase' = "done" /\ output' = status
                    /\ bus' = [bus EXCEPT !.completed = @ + 1]
                    /\ UNCHANGED <<lane, tries, bridge, session, tracker>>

PullArtifacts(status) ==
  /\ phase = "pulling" /\ Finish(status)
  /\ UNCHANGED <<lane, tries, bridge, session, tracker>>

Client ==
  \/ Execute \/ StubAnswers \/ Spawned \/ SpawnRefused \/ SpawnMalformed
  \/ \E made \in 0 .. 1 : SpawnFails(made)
  \/ StreamOpens \/ StreamRefused \/ StreamDrops \/ StreamCloses
  \/ HandleSessionEvent \/ LastFrame
  \/ Terminate \/ \E s \in {"success", "error"} : PullArtifacts(s)

ExecutorNext == Client \/ ProduceFrame \/ SessionEnds

\* The event loop runs what is due.  No fetch and no read of the stream has a time-out, so
\* nothing more can be counted on in the page itself.
ExecutorSpec == /\ ExecutorInit /\ [][ExecutorNext]_executorVars
                /\ WF_executorVars(Execute) /\ WF_executorVars(StubAnswers)

\* What the executor relies on, of the provider and of the bus: a request is answered or
\* fails, an open stream delivers the frames there are, and a session ends within its task
\* budget.  It forces no failure: an open stream need not drop or close.
RequestsEnd ==
  /\ WF_executorVars(Spawned \/ SpawnRefused \/ SpawnMalformed \/ \E made \in 0 .. 1 : SpawnFails(made))
  /\ WF_executorVars(~bridge.open /\ (StreamOpens \/ StreamRefused \/ StreamDrops))
  /\ WF_executorVars(Terminate) /\ WF_executorVars(\E s \in {"success", "error"} : PullArtifacts(s))
ProviderAnswers ==
  RequestsEnd /\ WF_executorVars(HandleSessionEvent \/ LastFrame) /\ WF_executorVars(SessionEnds)

(***************************************************************************)
(* Properties.                                                             *)
(***************************************************************************)
Over == phase \in {"done", "thrown"}
\* One started event and one last event for a step that returns, and the last one says what the
\* caller is told, whichever of the many ways out was taken; none for a step that throws, which
\* it does only when a publish was rejected (execute, emit).
OneOutcomePerStep ==
  /\ bus.completed + bus.failed = (IF phase = "done" THEN 1 ELSE 0)
  /\ phase = "done" => bus.started = 1 /\ (bus.completed = 1 <=> output = "success")
  /\ phase = "thrown" => output = "none"
\* Over any drops, replays and rejected publishes the usage of a frame is counted once, and all
\* of it when the session's own end was read: the cost shown is the cost run up.
UsageCountedOnce ==
  /\ \A i \in 1 .. FRAMES : tracker.counted[i] <= 1
  /\ tracker.terminal \in Ends => \A i \in 1 .. session.frames : tracker.counted[i] = 1
\* A spawned session is left running only when its DELETE was lost, or when the stream was
\* closed without a last frame and taken for its end.
SessionsAreEnded ==
  Over /\ Running => session.lostDelete \/ tracker.terminal = "closed"
\* The three together: a step that execute() returns from is over, once, on the bus, on the
\* bill and at the provider; one it throws from is over at the provider and on the bill.
StepSettled == OneOutcomePerStep /\ UsageCountedOnce /\ SessionsAreEnded
\* execute() returns or throws, however often the stream drops, when the provider answers.
ExecuteReturns == ProviderAnswers => (phase = "start" ~> Over)
=============================================================================
