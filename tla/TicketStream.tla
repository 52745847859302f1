---------------------------- MODULE TicketStream -----------------------------
(***************************************************************************)
(* useBuilderStream: the hook that reads one Builder session. Its effect   *)
(* asks for a ticket, waits for it, and only then opens an EventSource;    *)
(* while it waits the session may change, the component may go, or the     *)
(* user may close the stream. Each run of the effect has its own closure   *)
(* (cancelled, eventSource), and all of them share two refs.               *)
(***************************************************************************)
EXTENDS Integers, Sequences, FiniteSets

CONSTANTS Sessions,   \* session ids the parent may pass
          NoSession,  \* sessionId = null, or enabled = false
          EFFECTS     \* bound: runs of the effect

ASSUME TicketAssumption == NoSession \notin Sessions /\ EFFECTS \in Nat \ {0}

VARIABLES hook,    \* the prop, whether mounted, closedRef, eventSourceRef, status
          runs,    \* the closures of the effect, oldest first
          events   \* the sessions whose events are in state.events

ticketVars == <<hook, runs, events>>

RunStages == {"ticket", "open", "live", "gone"}
Closure == [session : Sessions, stage : RunStages, cancelled : BOOLEAN]
Reading == {i \in DOMAIN runs : runs[i].stage \in {"open", "live"}}

\* The cleanup of the effect that is in force: its closure is cancelled, its
\* source closed, and both refs cleared.
CleanedUp(rs) ==
  IF rs = <<>> THEN rs
  ELSE [rs EXCEPT ![Len(rs)].cancelled = TRUE,
                  ![Len(rs)].stage = IF @ \in {"open", "live"} THEN "gone" ELSE @]

\* The effect runs: nothing for no session, or a closure that asks for a ticket.
EffectRuns(s, rs) ==
  IF s = NoSession THEN rs
  ELSE Append(rs, [session |-> s, stage |-> "ticket", cancelled |-> FALSE])

\* A mount has state and refs of its own. A ticket that a mount before it asked for may
\* still be on its way: its closure was cancelled.
MountStream(s) ==
  /\ ~hook.mounted
  /\ Len(runs) < EFFECTS
  /\ hook' = [mounted |-> TRUE, session |-> s, closed |-> FALSE, source |-> 0,
              status |-> IF s = NoSession THEN "idle" ELSE "authenticating"]
  /\ runs' = EffectRuns(s, runs)
  /\ events' = {}

\* The dependencies change (sessionId, baseUrl, enabled): cleanup, then the
\* effect again. The events of the session before stay in the state.
SessionChanges(s) ==
  /\ hook.mounted /\ s # hook.session
  /\ Len(runs) < EFFECTS
  /\ runs' = EffectRuns(s, CleanedUp(runs))
  /\ hook' = [hook EXCEPT !.session = s, !.source = 0,
                          !.closed = (s = NoSession),
                          !.status = IF s = NoSession THEN @ ELSE "authenticating"]
  /\ UNCHANGED events

UnmountStream ==
  /\ hook.mounted
  /\ runs' = CleanedUp(runs)
  /\ hook' = [hook EXCEPT !.mounted = FALSE, !.closed = TRUE, !.source = 0]
  /\ UNCHANGED events

\* close(): the ref remembers it, and the source of the ref is closed.
CloseRef(rs) == IF hook.source = 0 THEN rs ELSE [rs EXCEPT ![hook.source].stage = "gone"]
CloseStream ==
  /\ hook.mounted
  /\ runs' = CloseRef(runs)
  /\ hook' = [hook EXCEPT !.closed = TRUE, !.source = 0, !.status = "closed"]
  /\ UNCHANGED events

\* The answer to getTicket: a cancelled or closed run opens nothing.
GivesUpWhenClosed(i) == hook.closed
GivesUp(i) == runs[i].cancelled \/ hook.closed

TicketArrives(i) ==
  /\ runs[i].stage = "ticket"
  /\ IF GivesUp(i)
     THEN runs' = [runs EXCEPT ![i].stage = "gone"] /\ UNCHANGED hook
     ELSE /\ runs' = [runs EXCEPT ![i].stage = "open"]
          /\ hook' = [hook EXCEPT !.source = i, !.status = "connecting"]
  /\ UNCHANGED events

\* getTicket rejects: only the cancelled flag is looked at, so a stream the
\* user closed meanwhile turns from closed to error.
TicketFails(i) ==
  /\ runs[i].stage = "ticket"
  /\ runs' = [runs EXCEPT ![i].stage = "gone"]
  /\ hook' = [hook EXCEPT !.status = IF runs[i].cancelled THEN @ ELSE "error"]
  /\ UNCHANGED events

StreamAnswers(i) ==
  /\ runs[i].stage = "open"
  /\ runs' = [runs EXCEPT ![i].stage = "live"]
  /\ hook' = [hook EXCEPT !.status = "open"]
  /\ UNCHANGED events

StreamEvent(i) ==
  /\ runs[i].stage = "live"
  /\ events' = events \union {runs[i].session}
  /\ UNCHANGED <<hook, runs>>

\* 'error': the status says so; the browser tries again by itself.
StreamError(i) ==
  /\ i \in Reading
  /\ runs' = [runs EXCEPT ![i].stage = "open"]
  /\ hook' = [hook EXCEPT !.status = "error"]
  /\ UNCHANGED events

TicketInit ==
  /\ hook = [mounted |-> FALSE, session |-> NoSession, closed |-> FALSE, source |-> 0,
             status |-> "idle"]
  /\ runs = <<>> /\ events = {}

TicketNext ==
  \/ \E s \in Sessions \union {NoSession} : MountStream(s) \/ SessionChanges(s)
  \/ UnmountStream \/ CloseStream
  \/ \E i \in DOMAIN runs : TicketArrives(i) \/ TicketFails(i) \/ StreamAnswers(i)
                            \/ StreamEvent(i) \/ StreamError(i)

TicketSpec == TicketInit /\ [][TicketNext]_ticketVars

----------------------------------------------------------------------------
(* Properties.                                                             *)

TicketTypeOK ==
  /\ hook \in [mounted : BOOLEAN, session : Sessions \union {NoSession}, closed : BOOLEAN,
               source : 0..Len(runs),
               status : {"idle", "authenticating", "connecting", "open", "closed", "error"}]
  /\ runs \in Seq(Closure)
  /\ Len(runs) <= EFFECTS + 1
  /\ events \subseteq Sessions

\* However late a ticket arrives, the hook reads at most one session, the one
\* it was last given, and never one after it was closed or unmounted.
OneStreamRead ==
  \A i \in Reading : /\ i = Len(runs) /\ hook.mounted /\ ~hook.closed
                     /\ runs[i].session = hook.session

\* What reads can be closed: eventSourceRef holds every source that is open.
OpenSourceIsHeld == \A i \in Reading : hook.source = i

\* Both: at any moment at most one stream is read, it is the one asked for last, and the
\* hook can close it (the cleanup and close() of useBuilderStream).
StreamIsHeld == OneStreamRead /\ OpenSourceIsHeld
=============================================================================
