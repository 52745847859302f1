---------------------------- MODULE ChatStream ----------------------------
(***************************************************************************)
(* The Builder sessions of the in-game chat: the commands /builder and     *)
(* /cancel, one event stream per session with reconnects, the chat store   *)
(* the streams write to and the typewriter that drains it.                 *)
(*                                                                         *)
(* A delta is named by its position in the server's script of the session, *)
(* so order, loss and repetition are visible in the text of a message.     *)
(***************************************************************************)
EXTENDS Naturals, SequencesExt

CONSTANTS
  Sessions,      \* the sessions the server can create
  Scripts,       \* what the server may send for a session: sequences of event kinds
  MESSAGES_CAP,
  MAX_RETRIES,
  MaxFaults      \* bound: connections lost, scenes built again and commands answered here

None == "none"

\* The kinds of events that change what the chat shows or end a stream.
Kinds == {"started", "delta", "tool_call", "done", "errored", "stream_truncated"}

ASSUME ChatAssumption ==
  /\ None \notin Sessions /\ Scripts \subseteq Seq(Kinds)
  /\ MESSAGES_CAP \in Nat /\ MAX_RETRIES \in Nat

VARIABLES
  chat,     \* chatStore: [msgs, stored, buffer, active]; stored is sessionStorage
  streams,  \* [Sessions -> [phase, closed, retry, last, script]]
  scene,    \* UIScene: [handle, creating, cancelling]
  faults    \* history: [drops, remounts, commands]

chatVars == <<chat, streams, scene, faults>>

MayDisturb == faults.drops + faults.remounts + faults.commands < MaxFaults

(***************************************************************************)
(* chatStore.                                                              *)
(***************************************************************************)
Capped(ms) ==
  IF Len(ms) <= MESSAGES_CAP THEN ms ELSE SubSeq(ms, Len(ms) - MESSAGES_CAP + 1, Len(ms))

Post(c, m) ==
  LET ms == Capped(Append(c.msgs, m)) IN [c EXCEPT !.msgs = ms, !.stored = ms]

System(c) == Post(c, [sess |-> None, text |-> <<>>, streaming |-> FALSE])

StreamingAt(c, s) == {i \in DOMAIN c.msgs : c.msgs[i].sess = s /\ c.msgs[i].streaming}

\* Where the text of its session goes: the last of its messages that streams.
IsTarget(c, i) == c.msgs[i].streaming /\ \A j \in StreamingAt(c, c.msgs[i].sess) : j <= i

AppendDelta(c, s, d) == [c EXCEPT !.buffer[s] = Append(@, d)]

Ended(c, s) ==
  [i \in DOMAIN c.msgs |->
     IF c.msgs[i].sess = s /\ IsTarget(c, i)
       THEN [c.msgs[i] EXCEPT !.text = @ \o c.buffer[s], !.streaming = FALSE] ELSE c.msgs[i]]

FinishStream(c, s) ==
  LET ms == IF StreamingAt(c, s) = {} /\ c.buffer[s] # <<>>
              THEN Append(c.msgs, [sess |-> s, text |-> c.buffer[s], streaming |-> FALSE])
              ELSE Ended(c, s)
  IN [c EXCEPT !.msgs = Capped(ms), !.stored = Capped(ms), !.buffer[s] = <<>>]

ClearMessages(c) ==
  [c EXCEPT !.msgs = <<>>, !.stored = <<>>, !.buffer = [s \in Sessions |-> <<>>]]

(***************************************************************************)
(* TypewriterEffect: moves the head of each buffer to the message that     *)
(* streams, or leaves it parked when there is none.  A tick serves one     *)
(* session after the other; each moves text of its own only.               *)
(***************************************************************************)
Taken(c, s, k) ==
  IF StreamingAt(c, s) = {} THEN 0 ELSE IF k < Len(c.buffer[s]) THEN k ELSE Len(c.buffer[s])

Typed(c, k) ==
  [c EXCEPT
     !.msgs = [i \in DOMAIN c.msgs |->
                 LET m == c.msgs[i]
                 IN IF IsTarget(c, i)
                      THEN [m EXCEPT !.text = @ \o SubSeq(c.buffer[m.sess], 1, Taken(c, m.sess, k))]
                      ELSE m],
     !.buffer = [s \in Sessions |-> SubSeq(@[s], Taken(c, s, k) + 1, Len(@[s]))]]

TypewriterDrain(k) ==
  /\ \E s \in Sessions : chat.buffer[s] # <<>>
  /\ chat' = Typed(chat, k)
  /\ UNCHANGED <<streams, scene, faults>>

(***************************************************************************)
(* One event stream: mint a ticket, connect, deliver, reconnect.           *)
(***************************************************************************)
NoStream == [phase |-> "none", closed |-> FALSE, retry |-> 0, last |-> 0, script |-> <<>>]

Seed(c, s) ==
  IF StreamingAt(c, s) # {} THEN c
  ELSE Post(c, [sess |-> s, text |-> <<>>, streaming |-> TRUE])

\* A closed handle cancels the timer and the connection, not a mint in flight.
Closed(st) == [st EXCEPT !.closed = TRUE, !.phase = IF @ = "minting" THEN @ ELSE "over"]

\* The store as the handle's close() leaves it.
Released(c, s) == IF c.active = s THEN [c EXCEPT !.active = None] ELSE c

HandleClose(st, reconnect) ==
  CASE st.closed -> [st EXCEPT !.phase = "over"]
    [] ~st.closed /\ (~reconnect \/ st.retry >= MAX_RETRIES) ->
         [st EXCEPT !.phase = "over", !.closed = TRUE]
    [] OTHER -> [st EXCEPT !.phase = "waiting"]

MintTicket(s) ==
  /\ streams[s].phase = "minting"
  /\ streams' = [streams EXCEPT ![s].phase = "connecting"]
  /\ UNCHANGED <<chat, scene, faults>>

\* The retry timer is set whether or not the handle was closed meanwhile.
MintFails(s) ==
  /\ streams[s].phase = "minting" /\ MayDisturb
  /\ faults' = [faults EXCEPT !.drops = @ + 1]
  /\ IF streams[s].retry >= MAX_RETRIES
       THEN /\ streams' = [streams EXCEPT ![s].phase = "over"]
            /\ chat' = System(chat)
       ELSE /\ streams' = [streams EXCEPT ![s].phase = "waiting"]
            /\ UNCHANGED chat
  /\ UNCHANGED scene

ReconnectTimerFromStart(s) ==
  /\ streams[s].phase = "waiting"
  /\ streams' = [streams EXCEPT ![s].phase = IF streams[s].closed THEN "over" ELSE "minting",
                                ![s].last = 0]
  /\ UNCHANGED <<chat, scene, faults>>

ReconnectTimer(s) ==
  /\ streams[s].phase = "waiting"
  /\ streams' = [streams EXCEPT ![s].phase = IF streams[s].closed THEN "over" ELSE "minting",
                                ![s].retry = @ + 1]
  /\ UNCHANGED <<chat, scene, faults>>

StreamOpens(s) ==
  /\ streams[s].phase = "connecting"
  /\ streams' = [streams EXCEPT ![s].phase = "open", ![s].retry = 0]
  /\ UNCHANGED <<chat, scene, faults>>

\* The next event after the last one seen (Last-Event-ID).
DeliverEvent(s) ==
  LET st == streams[s]
      n  == st.last + 1
      seen == [st EXCEPT !.last = n]
  IN /\ st.phase = "open" /\ st.last < Len(st.script)
     /\ LET kind == st.script[n]
        IN /\ chat' = CASE kind = "started" -> Seed(chat, s)
                        [] kind = "delta" -> AppendDelta(Seed(chat, s), s, n)
                        [] kind = "tool_call" -> System(chat)
                        [] kind = "done" -> System(FinishStream(chat, s))
                        [] kind = "errored" -> System(System(chat))
                        [] kind = "stream_truncated" -> System(chat)
           /\ streams' = [streams EXCEPT ![s] =
                CASE kind \in {"done", "stream_truncated"} -> HandleClose(seen, FALSE)
                  [] kind = "errored" -> HandleClose(seen, TRUE)
                  [] OTHER -> seen]
     /\ UNCHANGED <<scene, faults>>

ConnectionLost(s) ==
  /\ streams[s].phase \in {"connecting", "open"} /\ MayDisturb
  /\ faults' = [faults EXCEPT !.drops = @ + 1]
  /\ streams' = [streams EXCEPT ![s] = HandleClose(@, TRUE)]
  /\ chat' = IF ~streams[s].closed /\ streams[s].retry >= MAX_RETRIES THEN System(chat) ELSE chat
  /\ UNCHANGED scene

(***************************************************************************)
(* Commands.  Those that fetch are two steps around the answer.            *)
(***************************************************************************)
BuilderCommand(s) ==
  /\ streams[s].phase = "none" /\ s \notin scene.creating
  /\ scene' = [scene EXCEPT !.creating = @ \union {s}]
  /\ chat' = System(chat)
  /\ UNCHANGED <<streams, faults>>

\* The session exists: the previous handle is closed, whatever it streams.
BuilderCreated(s) ==
  /\ s \in scene.creating
  /\ \E script \in Scripts :
       LET h == scene.handle
           freed == IF h = None THEN streams ELSE [streams EXCEPT ![h] = Closed(@)]
       IN streams' = [freed EXCEPT ![s] = [NoStream EXCEPT !.phase = "minting", !.script = script]]
  /\ scene' = [scene EXCEPT !.creating = @ \ {s}, !.handle = s]
  /\ chat' = [chat EXCEPT !.active = s]
  /\ UNCHANGED faults

BuilderFails(s) ==
  /\ s \in scene.creating
  /\ scene' = [scene EXCEPT !.creating = @ \ {s}]
  /\ chat' = System(chat)
  /\ UNCHANGED <<streams, faults>>

\* One /cancel is waited for at a time (bound).
CancelCommand ==
  /\ scene.cancelling = None
  /\ IF chat.active = None
       THEN chat' = System(chat) /\ UNCHANGED scene
       ELSE scene' = [scene EXCEPT !.cancelling = chat.active] /\ UNCHANGED chat
  /\ UNCHANGED <<streams, faults>>

\* After the fetch: the session is the one read before, the handle is today's.
CancelAnswered ==
  /\ scene.cancelling # None
  /\ LET h == scene.handle
         c == FinishStream(IF h = None THEN chat ELSE Released(chat, h), scene.cancelling)
     IN /\ streams' = IF h = None THEN streams ELSE [streams EXCEPT ![h] = Closed(@)]
        /\ chat' = System([c EXCEPT !.active = None])
  /\ scene' = [scene EXCEPT !.cancelling = None, !.handle = None]
  /\ UNCHANGED faults

\* /help, /debug, /model, an unknown word, the answers of /save, /tools and
\* /budget: one message, which may push an older one over the cap.
LocalCommand ==
  /\ MayDisturb
  /\ faults' = [faults EXCEPT !.commands = @ + 1]
  /\ chat' = System(chat)
  /\ UNCHANGED <<streams, scene>>

ClearCommand ==
  /\ MayDisturb
  /\ faults' = [faults EXCEPT !.commands = @ + 1]
  /\ chat' = System(ClearMessages(chat))
  /\ UNCHANGED <<streams, scene>>

\* The scene shuts down (cleanup closes the handle) and is created again,
\* which replaces the messages by the stored ones.
Remount ==
  /\ MayDisturb
  /\ faults' = [faults EXCEPT !.remounts = @ + 1]
  /\ LET h == scene.handle
         c == IF h = None THEN chat ELSE Released(chat, h)
     IN /\ streams' = IF h = None THEN streams ELSE [streams EXCEPT ![h] = Closed(@)]
        /\ chat' = [c EXCEPT !.msgs = c.stored]
  /\ scene' = [scene EXCEPT !.handle = None]

ChatInit ==
  /\ chat = [msgs |-> <<>>, stored |-> <<>>, buffer |-> [s \in Sessions |-> <<>>], active |-> None]
  /\ streams = [s \in Sessions |-> NoStream]
  /\ scene = [handle |-> None, creating |-> {}, cancelling |-> None]
  /\ faults = [drops |-> 0, remounts |-> 0, commands |-> 0]

ChatNext ==
  \/ \E s \in Sessions :
       \/ MintTicket(s) \/ MintFails(s) \/ ReconnectTimer(s) \/ StreamOpens(s)
       \/ DeliverEvent(s) \/ ConnectionLost(s) \/ BuilderCommand(s) \/ BuilderCreated(s) \/ BuilderFails(s)
  \/ CancelCommand \/ CancelAnswered \/ LocalCommand \/ ClearCommand \/ Remount
  \/ TypewriterDrain(1) \/ TypewriterDrain(9)

ChatSpec == ChatInit /\ [][ChatNext]_chatVars

(***************************************************************************)
(* Properties.                                                             *)
(***************************************************************************)
ChatTypeOK ==
  /\ Len(chat.msgs) <= MESSAGES_CAP
  /\ chat.active \in Sessions \union {None} /\ scene.handle \in Sessions \union {None}
  /\ \A s \in Sessions :
       /\ streams[s].phase \in {"none", "minting", "connecting", "open", "waiting", "over"}
       /\ streams[s].retry <= MAX_RETRIES + 1
       /\ streams[s].last <= Len(streams[s].script)

Ascends(t) == \A a, b \in DOMAIN t : a < b => t[a] < t[b]
Before(t, u) == \A a \in DOMAIN t, b \in DOMAIN u : t[a] < u[b]

\* The messages of s, then the text that is still buffered, in reading order.
InOrder(ms, t, s) ==
  LET its == {i \in DOMAIN ms : ms[i].sess = s}
  IN /\ Ascends(t) /\ \A i \in its : Ascends(ms[i].text) /\ Before(ms[i].text, t)
     /\ \A i, j \in its : i < j => Before(ms[i].text, ms[j].text)

\* The deltas that are shown or still buffered.
Read(ms, t, s) == ToSet(t) \union UNION {ToSet(ms[i].text) : i \in {j \in DOMAIN ms : ms[j].sess = s}}

\* "SSE reconnect: ... chars 51+ render without duplication" (chat_ui.contract):
\* whatever drops, clears, caps and typewriter ticks come between, the deltas of
\* a session are read in the order they were sent, none twice, and none is
\* missing between two others unless the scene was built again.
DeltasReadInOrder ==
  \A s \in Sessions :
    LET read == Read(chat.msgs, chat.buffer[s], s)
    IN /\ InOrder(chat.msgs, chat.buffer[s], s)
       /\ faults.remounts = 0 =>
            \A a, b \in read : \A n \in a .. b : streams[s].script[n] = "delta" => n \in read

\* Once "done" was seen nothing of the session types on, even after the scene
\* was built again from the stored messages.
DoneIsFinal ==
  \A s \in Sessions :
    LET st == streams[s]
    IN st.last > 0 /\ st.script[st.last] = "done"
         => StreamingAt(chat, s) = {} /\ chat.buffer[s] = <<>>
=============================================================================
