-------------------------------- MODULE Viz ---------------------------------
(***************************************************************************)
(* The live pipeline view of the Builder: StreamSubscriber, which holds    *)
(* one EventSource per managed-agent session and one WebSocket to the      *)
(* orchestrator and publishes what they say on the event bus, and the      *)
(* store of PipelineCanvas, which paints a node per specialist.            *)
(*                                                                         *)
(* A source, a socket and a timer each act on their own: an error may      *)
(* arrive while a timer is pending, a timer may fire after its handle was  *)
(* overwritten by a later one, and the canvas may be given another run     *)
(* while the subscriber still publishes for the first.                     *)
(***************************************************************************)
EXTENDS Integers, Sequences, FiniteSets, Functions

CONSTANTS Endpoints,   \* managed-agent sessions, one specialist (node) each
          PipelineRuns,\* runs the canvas may be asked to show
          OwnRun,      \* the run the subscriber was made for
          ATTEMPTS,    \* MAX_RECONNECT_ATTEMPTS, 8 in the code
          SOURCES,     \* bound: event sources opened in one behaviour
          SOCKETS,     \* bound: web sockets opened in one behaviour
          REPEATS      \* bound: errors one source reports

ASSUME VizAssumption == /\ OwnRun \in PipelineRuns /\ IsFiniteSet(Endpoints)
                        /\ {ATTEMPTS, SOURCES, SOCKETS, REPEATS} \subseteq Nat \ {0}

VARIABLES subscriber,  \* life, connection state and whether there is a socket URL
          wanted,      \* the sessions maSseUrlsProvider returns
          sources,     \* every event source opened, oldest first, with its handle
          active,      \* activeSse: the source registered for a session, 0 if none
          sockets,     \* every socket opened, oldest first
          wsRetry,     \* wsAttempts, pending timers, whether the kept handle is pending
          canvas,      \* run, statuses and tool calls of PipelineCanvas's store
          told         \* history: the run of the event a node last took

vizVars == <<subscriber, wanted, sources, active, sockets, wsRetry, canvas, told>>

MaTopics == {"span.model_request_end", "agent.tool_use", "session.status_idle",
             "session.error", "agent.message"}

LiveSources(s) == {i \in DOMAIN sources : sources[i].session = s /\ sources[i].open}
Alive == subscriber.life # "disposed"

----------------------------------------------------------------------------
(* What the store does with an event.                                      *)

BlankCanvas(r) == [run |-> r, status |-> [n \in Endpoints |-> "idle"],
                   tool |-> [n \in Endpoints |-> FALSE]]

\* translateMaEventToPipelineEvent: agent.message is heard and dropped.
Translated(topic) ==
  CASE topic = "span.model_request_end" -> "step.started"
    [] topic = "agent.tool_use"         -> "step.tool_use"
    [] topic = "session.status_idle"    -> "step.completed"
    [] topic = "session.error"          -> "step.failed"
    [] OTHER                            -> "none"

ApplyStep(c, n, event) ==
  CASE event = "step.started"   -> [c EXCEPT !.status[n] = "active"]
    [] event = "step.completed" -> [c EXCEPT !.status[n] = "completed", !.tool[n] = FALSE]
    [] event = "step.failed"    -> [c EXCEPT !.status[n] = "failed"]
    [] event = "step.tool_use"  -> [c EXCEPT !.tool[n] = TRUE]
    [] OTHER                    -> c

\* useBusSubscription: every handler looks at the run of the event first.
Heard(run, n, event) ==
  IF run = canvas.run THEN ApplyStep(canvas, n, event) ELSE canvas

Publish(n, event) ==
  /\ canvas' = Heard(OwnRun, n, event)
  /\ told' = IF Heard(OwnRun, n, event) = canvas THEN told ELSE [told EXCEPT ![n] = OwnRun]

----------------------------------------------------------------------------
(* Event sources.                                                          *)

NewSource(s) == [session |-> s, open |-> TRUE, attempts |-> 0, timers |-> 0,
                 kept |-> FALSE, disposed |-> FALSE]

\* openSseSession registers a fresh handle, whose attempts start at 0 again.
OpenSource(srcs, act, s) ==
  [srcs |-> Append(srcs, NewSource(s)), act |-> [act EXCEPT ![s] = Len(srcs) + 1]]

\* Disposing of a handle clears the one timer it still knows.
Dropped(h) == [h EXCEPT !.disposed = TRUE, !.open = FALSE, !.kept = FALSE,
                        !.timers = IF h.kept THEN h.timers - 1 ELSE h.timers]

\* reconcileSseSessions: drop what is no longer wanted, open what is missing, in any order.
Reconciled(srcs, act) ==
  LET gone    == {s \in Endpoints : act[s] # 0 /\ s \notin wanted}
      missing == {s \in wanted : act[s] = 0}
      swept   == [i \in DOMAIN srcs |->
                    IF \E s \in gone : act[s] = i THEN Dropped(srcs[i]) ELSE srcs[i]]
      order   == CHOOSE f \in Bijection(1..Cardinality(missing), missing) : TRUE
      opened  == [k \in 1..Cardinality(missing) |-> NewSource(order[k])]
      place   == [s \in missing |-> CHOOSE k \in DOMAIN opened : order[k] = s]
  IN [srcs |-> swept \o opened,
      act |-> [s \in Endpoints |-> CASE s \in missing -> Len(srcs) + place[s]
                                    [] s \in gone -> 0
                                    [] OTHER -> act[s]]]

Reconcile ==
  /\ subscriber.life = "live"
  /\ LET r == Reconciled(sources, active)
     IN /\ Len(r.srcs) <= SOURCES
        /\ <<r.srcs, r.act>> # <<sources, active>>
        /\ sources' = r.srcs /\ active' = r.act
  /\ UNCHANGED <<subscriber, wanted, sockets, wsRetry, canvas, told>>

\* The runtime starts and ends managed-agent sessions.
SessionsChange ==
  /\ \E s \in Endpoints : wanted' = IF s \in wanted THEN wanted \ {s} ELSE wanted \union {s}
  /\ UNCHANGED <<subscriber, sources, active, sockets, wsRetry, canvas, told>>

\* ingestMaEvent: a frame of any open source is published while not disposed.
SourceFrame(i, topic) ==
  /\ sources[i].open
  /\ Alive
  /\ Translated(topic) # "none"
  /\ Publish(sources[i].session, Translated(topic))
  /\ UNCHANGED <<subscriber, wanted, sources, active, sockets, wsRetry>>

\* 'error' of a source: scheduleSseReconnect. The browser reconnects a source
\* by itself, so an error may be reported again before the timer fires.
SourceError(i) ==
  /\ sources[i].open /\ ~sources[i].disposed /\ Alive
  /\ sources[i].attempts < REPEATS
  /\ LET tries == sources[i].attempts + 1
     IN IF tries > ATTEMPTS
        THEN /\ sources' = [sources EXCEPT ![i].attempts = tries]
             /\ subscriber' = [subscriber EXCEPT !.conn = "error"]
        ELSE /\ sources' = [sources EXCEPT ![i].attempts = tries, ![i].timers = @ + 1,
                                           ![i].kept = TRUE]
             /\ subscriber' = [subscriber EXCEPT !.conn = "reconnecting"]
  /\ UNCHANGED <<wanted, active, sockets, wsRetry, canvas, told>>

\* One of a handle's timers leaves the queue; it may be the one it still knows.
TimerSpent(h, last) == [h EXCEPT !.timers = @ - 1, !.kept = IF last THEN FALSE ELSE @]
MayFire(timers, kept, last) ==
  /\ timers > 0
  /\ IF last THEN kept ELSE timers > (IF kept THEN 1 ELSE 0)

\* The backoff timer: close the source, forget the session, open another one.
ReopenedWithoutClosing(i, last) ==
  OpenSource([sources EXCEPT ![i] = TimerSpent(@, last)],
             [active EXCEPT ![sources[i].session] = 0], sources[i].session)
Reopened(i, last) ==
  OpenSource([sources EXCEPT ![i] = [TimerSpent(@, last) EXCEPT !.open = FALSE]],
             [active EXCEPT ![sources[i].session] = 0], sources[i].session)

SourceTimer(i, last) ==
  /\ MayFire(sources[i].timers, sources[i].kept, last)
  /\ IF sources[i].disposed \/ ~Alive
     THEN /\ sources' = [sources EXCEPT ![i] = TimerSpent(@, last)]
          /\ UNCHANGED active
     ELSE /\ Len(sources) < SOURCES
          /\ sources' = Reopened(i, last).srcs
          /\ active' = Reopened(i, last).act
  /\ UNCHANGED <<subscriber, wanted, sockets, wsRetry, canvas, told>>

----------------------------------------------------------------------------
(* The orchestrator's web socket.                                          *)

\* scheduleWsReconnect, as a function of the retry record.
ScheduleWsReconnect(r) ==
  LET tries == r.attempts + 1
  IN IF tries > ATTEMPTS
     THEN [r EXCEPT !.attempts = tries, !.conn = "error"]
     ELSE [r EXCEPT !.attempts = tries, !.timers = @ + 1, !.kept = TRUE,
                    !.conn = "reconnecting"]

Retrying == [attempts |-> wsRetry.attempts, timers |-> wsRetry.timers,
             kept |-> wsRetry.kept, conn |-> subscriber.conn]
SetRetrying(r) ==
  /\ wsRetry' = [attempts |-> r.attempts, timers |-> r.timers, kept |-> r.kept]
  /\ subscriber' = [subscriber EXCEPT !.conn = r.conn]

\* 'open' does not look whether the subscriber was disposed.
SocketOpens(i) ==
  /\ sockets[i] = "connecting"
  /\ sockets' = [sockets EXCEPT ![i] = "open"]
  /\ wsRetry' = [wsRetry EXCEPT !.attempts = 0]
  /\ subscriber' = [subscriber EXCEPT !.conn = "open"]
  /\ UNCHANGED <<wanted, sources, active, canvas, told>>

SocketFrame(i, n, event) ==
  /\ sockets[i] = "open"
  /\ Alive
  /\ Publish(n, event)
  /\ UNCHANGED <<subscriber, wanted, sources, active, sockets, wsRetry>>

\* A socket the server closes fires 'close'; one that fails fires 'error' and
\* then 'close' in the same task, and both handlers schedule a reconnect.
SocketEnds(i, failed) ==
  /\ sockets[i] \in {"connecting", "open"}
  /\ sockets[i] = "open" \/ failed
  /\ sockets' = [sockets EXCEPT ![i] = "closed"]
  /\ IF ~Alive THEN UNCHANGED <<wsRetry, subscriber>>
     ELSE IF failed
          THEN SetRetrying(ScheduleWsReconnect(ScheduleWsReconnect(Retrying)))
          ELSE SetRetrying(ScheduleWsReconnect(Retrying))
  /\ UNCHANGED <<wanted, sources, active, canvas, told>>

SocketsWithoutCheck == Append(sockets, "connecting")
SocketsAfterTimer == IF Alive THEN Append(sockets, "connecting") ELSE sockets

SocketTimer(last) ==
  /\ MayFire(wsRetry.timers, wsRetry.kept, last)
  /\ Len(SocketsAfterTimer) <= SOCKETS
  /\ wsRetry' = TimerSpent(wsRetry, last)
  /\ sockets' = SocketsAfterTimer
  /\ UNCHANGED <<subscriber, wanted, sources, active, canvas, told>>

----------------------------------------------------------------------------
(* start, dispose, and the canvas.                                         *)

StartSubscriber ==
  /\ subscriber.life = "new"
  /\ LET r == Reconciled(sources, active)
     IN /\ Len(r.srcs) <= SOURCES
        /\ sources' = r.srcs /\ active' = r.act
  /\ subscriber' = [subscriber EXCEPT !.life = "live",
                       !.conn = IF subscriber.url THEN "connecting" ELSE "open"]
  /\ sockets' = IF subscriber.url THEN Append(sockets, "connecting") ELSE sockets
  /\ UNCHANGED <<wanted, wsRetry, canvas, told>>

\* dispose closes what is registered: the sources of activeSse, the last
\* socket opened and the last timer set.
DisposeSubscriber ==
  /\ subscriber.life = "live"
  /\ subscriber' = [subscriber EXCEPT !.life = "disposed", !.conn = "closed"]
  /\ sources' = [i \in DOMAIN sources |->
                   IF \E s \in Endpoints : active[s] = i THEN Dropped(sources[i]) ELSE sources[i]]
  /\ active' = [s \in Endpoints |-> 0]
  /\ sockets' = [i \in DOMAIN sockets |-> IF i = Len(sockets) THEN "closed" ELSE sockets[i]]
  /\ wsRetry' = [wsRetry EXCEPT !.kept = FALSE,
                                !.timers = IF wsRetry.kept THEN @ - 1 ELSE @]
  /\ UNCHANGED <<wanted, canvas, told>>

\* The parent shows another run: hydrate, and the subscriptions follow.
ShowRun(r) ==
  /\ r # canvas.run
  /\ canvas' = BlankCanvas(r)
  /\ told' = [n \in Endpoints |-> "none"]
  /\ UNCHANGED <<subscriber, wanted, sources, active, sockets, wsRetry>>

\* The parent passes new node arrays for the same run: hydrate puts every node
\* back to what the parent says of it.
Rehydrate ==
  /\ canvas # BlankCanvas(canvas.run)
  /\ canvas' = BlankCanvas(canvas.run)
  /\ told' = [n \in Endpoints |-> "none"]
  /\ UNCHANGED <<subscriber, wanted, sources, active, sockets, wsRetry>>

----------------------------------------------------------------------------

VizInit ==
  /\ \E url \in BOOLEAN : subscriber = [life |-> "new", conn |-> "idle", url |-> url]
  /\ wanted \in SUBSET Endpoints
  /\ sources = <<>> /\ active = [s \in Endpoints |-> 0]
  /\ sockets = <<>> /\ wsRetry = [attempts |-> 0, timers |-> 0, kept |-> FALSE]
  /\ canvas = BlankCanvas(OwnRun) /\ told = [n \in Endpoints |-> "none"]

VizNext ==
  \/ StartSubscriber \/ DisposeSubscriber \/ Reconcile \/ SessionsChange \/ Rehydrate
  \/ \E r \in PipelineRuns : ShowRun(r)
  \/ \E i \in DOMAIN sources : \/ \E t \in MaTopics : SourceFrame(i, t)
                               \/ SourceError(i)
                               \/ \E last \in BOOLEAN : SourceTimer(i, last)
  \/ \E i \in DOMAIN sockets : \/ SocketOpens(i)
                               \/ \E failed \in BOOLEAN : SocketEnds(i, failed)
                               \/ \E n \in Endpoints : SocketFrame(i, n, "step.completed")
  \/ \E last \in BOOLEAN : SocketTimer(last)

VizSpec == VizInit /\ [][VizNext]_vizVars

----------------------------------------------------------------------------
(* Properties.                                                             *)

\* A session is read by one event source: the reconnect timer closes the old
\* source before it opens the next, and reconcile opens none that is
\* registered. Each further open source was caused by a source that reported
\* another error before its timer fired.
OneSourcePerSession ==
  \A s \in Endpoints :
    LET again == {e \in (DOMAIN sources) \X (2..REPEATS) : \* errors after the first
                    sources[e[1]].session = s /\ e[2] <= sources[e[1]].attempts}
    IN Cardinality(LiveSources(s)) <= 1 + Cardinality(again)

\* A disposed subscriber connects to nothing any more, although the timers it
\* no longer knows still fire.
DisposedConnectsNothing ==
  [][~Alive => Len(sources') = Len(sources) /\ Len(sockets') = Len(sockets)]_vizVars

\* What a node shows was said of the run the canvas shows: a subscriber that
\* still publishes for the run shown before changes nothing.
CanvasShowsItsRun ==
  \A n \in Endpoints :
    canvas.status[n] # "idle" \/ canvas.tool[n] => told[n] = canvas.run

=============================================================================
