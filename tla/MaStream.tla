------------------------------ MODULE MaStream ------------------------------
(***************************************************************************)
(* The event log of one managed-agent session and a client that reads it:  *)
(* persist_and_publish, the replay and the live tail of the SSE endpoint,  *)
(* and the reconnects of an EventSource with Last-Event-ID.  The callers   *)
(* of persist_and_publish (the dispatcher, a cancellation) are not part of *)
(* the repository (external): they insert, the function publishes, and     *)
(* their transaction then commits or not.                                  *)
(*                                                                         *)
(* An event is its ma_event.id, drawn from a sequence at the insert.  Two  *)
(* writers that overlap compute the same seq, so the unique index holds    *)
(* the second until the first has committed, and then refuses it.          *)
(***************************************************************************)
EXTENDS Naturals, Sequences, SequencesExt

CONSTANTS
  REPLAY_BATCH_LIMIT,
  EVENTS,   \* bound: ids drawn
  DROPS     \* bound: connections lost

ASSUME StreamAssumption == REPLAY_BATCH_LIMIT \in Nat \ {0} /\ EVENTS \in Nat /\ DROPS \in Nat

VARIABLES
  log,      \* event -> [kind, at]: held, inserted, told (published), committed or aborted
  ended,    \* the row of the session is terminal
  conn,     \* the connection: [at, cursor, read]; cursor is last_id of the replay, read is
            \* history: the events committed when its last page was read
  inbox,    \* the Pub/Sub messages of the connection's subscription
  wire,     \* frames yielded and not yet at the client
  seen,     \* the client: ids of the frames it got, oldest first
  slipped,  \* history: events a subscription came too late for, or Redis did not publish
  drops

streamVars == <<log, ended, conn, inbox, wire, seen, slipped, drops>>

LogEvents == DOMAIN log
With(at) == {e \in LogEvents : log[e].at \in at}
Unsettled == With({"inserted", "told"})

StreamInit ==
  /\ log = <<>> /\ ended = FALSE /\ conn = [at |-> "off", cursor |-> 0, read |-> {}]
  /\ inbox = <<>> /\ wire = <<>> /\ seen = <<>> /\ slipped = {} /\ drops = 0

----------------------------------------------------------------------------
(* The writers.                                                            *)

\* The INSERT, by one of two writers at most; nothing is written after a "done" that
\* stands.
InsertEvent(kind) ==
  /\ Len(log) < EVENTS /\ With({"held"}) = {}
  /\ \A e \in LogEvents : log[e].kind = "done" => log[e].at = "aborted"
  /\ log' = Append(log, [kind |-> kind, at |-> IF Unsettled = {} THEN "inserted" ELSE "held"])
  /\ UNCHANGED <<ended, conn, inbox, wire, seen, slipped, drops>>

\* PUBLISH, inside the transaction; a Redis failure is logged and no more.
PublishEvent(e, up) ==
  /\ log[e].at = "inserted" /\ log' = [log EXCEPT ![e].at = "told"]
  /\ inbox' = IF up /\ conn.at = "tail" THEN Append(inbox, e) ELSE inbox
  /\ slipped' = IF up \/ conn.at # "tail" THEN slipped ELSE slipped \union {e}
  /\ UNCHANGED <<ended, conn, wire, seen, drops>>

\* What becomes of the writer that was held, once the first has ended as it did.
LogAfter(e, how, heldBecomes) ==
  [f \in LogEvents |-> IF f = e THEN [log[f] EXCEPT !.at = how]
                       ELSE IF log[f].at = "held" THEN [log[f] EXCEPT !.at = heldBecomes] ELSE log[f]]

CommitEvent(e) ==
  /\ log[e].at = "told" /\ log' = LogAfter(e, "committed", "aborted")
  /\ UNCHANGED <<ended, conn, inbox, wire, seen, slipped, drops>>

\* The transaction fails, before or after it published.
AbortEvent(e) ==
  /\ e \in Unsettled /\ log' = LogAfter(e, "aborted", "inserted")
  /\ UNCHANGED <<ended, conn, inbox, wire, seen, slipped, drops>>

SessionRowEnds ==
  /\ ~ended /\ ended' = TRUE
  /\ UNCHANGED <<log, conn, inbox, wire, seen, slipped, drops>>

----------------------------------------------------------------------------
(* The endpoint.                                                           *)

At(place) == conn' = [conn EXCEPT !.at = place]
LastSeen == IF seen = <<>> THEN 0 ELSE Last(seen)

\* sse_stream_handler: a terminal session is refused to a client that has seen nothing.
OpenStream ==
  /\ conn.at = "off"
  /\ conn' = [at |-> IF ended /\ LastSeen = 0 THEN "gone" ELSE "replay",
              cursor |-> LastSeen, read |-> {}]
  /\ UNCHANGED <<log, ended, inbox, wire, seen, slipped, drops>>

Missed == {e \in With({"committed"}) : e > conn.cursor}
Ascending(s) == \A i, j \in DOMAIN s : i < j => s[i] < s[j]

\* What select_events_since may answer, which is one page: the oldest of the missed events in
\* order, and none is left out unless the page is full.
Pages == {page \in UNION {[1..n -> Missed] : n \in 0..REPLAY_BATCH_LIMIT} :
            /\ Ascending(page)
            /\ \A e \in Missed : \/ e \in ToSet(page)
                                 \/ Len(page) = REPLAY_BATCH_LIMIT /\ Last(page) < e}

\* _collect_replay: a page that is not full is the last one.
ReplayPage ==
  /\ conn.at = "replay"
  /\ \E page \in Pages :
       /\ wire' = wire \o page
       /\ conn' = [at |-> IF Len(page) < REPLAY_BATCH_LIMIT THEN "probe" ELSE "replay",
                   cursor |-> IF page = <<>> THEN conn.cursor ELSE Last(page),
                   read |-> With({"committed"})]
  /\ UNCHANGED <<log, ended, inbox, seen, slipped, drops>>

\* A session that is terminal by now has no live events.
ProbeRow ==
  /\ conn.at = "probe" /\ At(IF ended THEN "closed" ELSE "subscribing")
  /\ UNCHANGED <<log, ended, inbox, wire, seen, slipped, drops>>

\* _live_tail subscribes only now: what was published since it was too late for the
\* replay has slipped through.
SubscribeTail ==
  /\ conn.at = "subscribing" /\ At("tail")
  /\ slipped' = slipped \union {e \in With({"told", "committed"}) \ conn.read : e > conn.cursor}
  /\ UNCHANGED <<log, ended, inbox, wire, seen, drops>>

\* The tail yields a message; "done" closes the stream.
TailYields ==
  /\ conn.at = "tail" /\ inbox # <<>>
  /\ wire' = Append(wire, Head(inbox)) /\ inbox' = Tail(inbox)
  /\ IF log[Head(inbox)].kind = "done" THEN At("closed") ELSE UNCHANGED conn
  /\ UNCHANGED <<log, ended, seen, slipped, drops>>

FrameArrives ==
  /\ wire # <<>> /\ wire' = Tail(wire) /\ seen' = Append(seen, Head(wire))
  /\ UNCHANGED <<log, ended, conn, inbox, slipped, drops>>

\* The connection is lost with the frames under way; the client will ask again.
ConnectionDrops ==
  /\ conn.at \notin {"off", "gone"} /\ drops < DROPS /\ drops' = drops + 1
  /\ conn' = [conn EXCEPT !.at = "off", !.read = {}] /\ inbox' = <<>> /\ wire' = <<>>
  /\ UNCHANGED <<log, ended, seen, slipped>>

StreamNext ==
  \/ \E kind \in {"delta", "done"} : InsertEvent(kind)
  \/ \E e \in LogEvents : CommitEvent(e) \/ AbortEvent(e) \/ \E up \in BOOLEAN : PublishEvent(e, up)
  \/ SessionRowEnds \/ OpenStream \/ ReplayPage \/ ProbeRow \/ SubscribeTail
  \/ TailYields \/ FrameArrives \/ ConnectionDrops

StreamSpec == StreamInit /\ [][StreamNext]_streamVars

----------------------------------------------------------------------------
(* Properties.                                                             *)

\* Over replays, tails, pages, aborted writers and lost connections a client gets no
\* event twice and none before an older one.
FramesInOrder == Ascending(seen)

\* What a resume can no longer bring back, because a later event was seen, is only what
\* slipped between replay and subscription or was never published.
GapsHaveSlipped == \A e \in With({"committed"}) : e < LastSeen => e \in ToSet(seen) \union slipped

EventsReadInOrder == FramesInOrder /\ GapsHaveSlipped
=============================================================================
