----------------------------- MODULE MaSession -----------------------------
(***************************************************************************)
(* Managed-agent sessions of one user: creating one behind its gates,      *)
(* cancelling one, and the status of its row.  A request is known by its   *)
(* name and the session it inserts carries that name.                      *)
(*                                                                         *)
(* Transactions are READ COMMITTED: the look-up of a key, the count of     *)
(* active sessions, the insert, and the two reads of a cancellation are    *)
(* steps, and other requests commit between them.  The dispatcher is not   *)
(* part of the repository; it moves a row through update_session_status    *)
(* (external).  What Hemera and Chronos answer at the gates is any answer. *)
(***************************************************************************)
EXTENDS Naturals, FiniteSets

CONSTANTS
  Creates,   \* requests to create a session
  KeyOf,     \* request -> its Idempotency-Key, or NoIdemKey
  BODIES,    \* what the requests may ask for: a set of functions request -> body
  NoIdemKey,
  MAX_CONCURRENT_PER_USER,
  CANCELS    \* bound: cancellations begun

ASSUME SessionAssumption ==
  /\ IsFiniteSet(Creates) /\ NoIdemKey \notin Creates
  /\ MAX_CONCURRENT_PER_USER \in Nat /\ CANCELS \in Nat

VARIABLES
  bodyOf,   \* what each request asks for; chosen at the start
  creates,  \* [Creates -> [at, reply]]: where create_session stands and what it answered
  sessions, \* ma_session: [Creates -> status], "none" where there is no row
  cancel,   \* the cancellation under way: [of, read, begun]; of is NoIdemKey if there is none
  flags,    \* Redis: ma:cancel:<id>
  heard,    \* history: sessions whose cancellation was answered "requested", with Redis up
  unseen    \* history: the most sessions queued and creates behind their count that one count missed

sessionVars == <<bodyOf, creates, sessions, cancel, flags, heard, unseen>>

TERMINAL == {"completed", "cancelled", "failed", "budget_capped"}
ActiveStates == {"running", "streaming"}

\* _TRANSITIONS: a queued session may skip to any end but completed.
Legal(from, to) ==
  \/ from = "queued" /\ to \in {"running"} \union (TERMINAL \ {"completed"})
  \/ from = "running" /\ to \in {"streaming"} \union TERMINAL
  \/ from = "streaming" /\ to \in TERMINAL

SessionInit ==
  /\ bodyOf \in BODIES
  /\ creates = [c \in Creates |-> [at |-> "new", reply |-> "none"]]
  /\ sessions = [c \in Creates |-> "none"]
  /\ cancel = [of |-> NoIdemKey, read |-> "none", begun |-> 0]
  /\ flags = {} /\ heard = {} /\ unseen = 0

Rows == {s \in Creates : sessions[s] # "none"}
Active == {s \in Creates : sessions[s] \in ActiveStates}
Queued == {s \in Creates : sessions[s] = "queued"}
Inserting == {c \in Creates : creates[c].at = "inserting"}

\* The row found by (user_id, idempotency_key), if there is one.
SameKey(c) == {s \in Rows : KeyOf[c] # NoIdemKey /\ KeyOf[s] = KeyOf[c]}

Moved(c, to) == creates' = [creates EXCEPT ![c].at = to]
Answered(c, answer) == creates' = [creates EXCEPT ![c] = [at |-> "done", reply |-> answer]]

\* The replay: a transaction of its own, before every gate.
LookUpKey(c) ==
  /\ creates[c].at = "new"
  /\ IF SameKey(c) = {} THEN Moved(c, "gates")
     ELSE Answered(c, IF \A s \in SameKey(c) : bodyOf[s] = bodyOf[c] THEN "replayed"
                                                                    ELSE "mismatch")
  /\ UNCHANGED <<bodyOf, sessions, cancel, flags, heard, unseen>>

\* enforce_whitelist_gate, then enforce_budget_cap; an outage refuses too.
PassGates(c, open) ==
  /\ creates[c].at = "gates"
  /\ IF open THEN Moved(c, "counting") ELSE Answered(c, "refused")
  /\ UNCHANGED <<bodyOf, sessions, cancel, flags, heard, unseen>>

Most(m, n) == IF m >= n THEN m ELSE n

CountActiveUpTo(c) ==
  /\ creates[c].at = "counting"
  /\ IF Cardinality(Active) > MAX_CONCURRENT_PER_USER THEN Answered(c, "too_many")
                                                      ELSE Moved(c, "inserting")
  /\ unseen' = Most(unseen, Cardinality(Queued \union Inserting))
  /\ UNCHANGED <<bodyOf, sessions, cancel, flags, heard>>

\* count_active_sessions counts running and streaming rows and not the queued ones.
CountActive(c) ==
  /\ creates[c].at = "counting"
  /\ IF Cardinality(Active) >= MAX_CONCURRENT_PER_USER THEN Answered(c, "too_many")
                                                       ELSE Moved(c, "inserting")
  /\ unseen' = Most(unseen, Cardinality(Queued \union Inserting))
  /\ UNCHANGED <<bodyOf, sessions, cancel, flags, heard>>

\* The unique index refuses a second row with the key, and nothing catches the violation.
InsertSession(c) ==
  /\ creates[c].at = "inserting"
  /\ IF SameKey(c) = {}
     THEN sessions' = [sessions EXCEPT ![c] = "queued"] /\ Answered(c, "created")
     ELSE Answered(c, "error") /\ UNCHANGED sessions
  /\ UNCHANGED <<bodyOf, cancel, flags, heard, unseen>>

\* update_session_status locks the row, asserts the transition and writes.
DispatcherMoves(s, to) ==
  /\ Legal(sessions[s], to) /\ sessions' = [sessions EXCEPT ![s] = to]
  /\ UNCHANGED <<bodyOf, creates, cancel, flags, heard, unseen>>

\* cancel_session reads the row without a lock; a terminal session is answered at once.
CancelReads(s) ==
  /\ cancel.of = NoIdemKey /\ cancel.begun < CANCELS
  /\ sessions[s] \notin {"none"} \union TERMINAL
  /\ cancel' = [of |-> s, read |-> sessions[s], begun |-> cancel.begun + 1]
  /\ UNCHANGED <<bodyOf, creates, sessions, flags, heard, unseen>>

CancelOver == cancel' = [cancel EXCEPT !.of = NoIdemKey, !.read = "none"]

\* A session read as queued is cancelled, also when it runs by now; if it has ended
\* meanwhile the transition is invalid and the request fails.
CancelWrites ==
  /\ cancel.read = "queued"
  /\ IF Legal(sessions[cancel.of], "cancelled")
     THEN /\ sessions' = [sessions EXCEPT ![cancel.of] = "cancelled"]
          /\ cancel' = [cancel EXCEPT !.read = "written"]
     ELSE CancelOver /\ UNCHANGED sessions
  /\ UNCHANGED <<bodyOf, creates, flags, heard, unseen>>

\* The flag is set after the transaction; with Redis down the answer is the same.
SetCancelFlag(up) ==
  /\ cancel.read \in ActiveStates \union {"written"}
  /\ flags' = IF up THEN flags \union {cancel.of} ELSE flags
  /\ heard' = IF up \/ cancel.read = "written" THEN heard \union {cancel.of} ELSE heard
  /\ CancelOver
  /\ UNCHANGED <<bodyOf, creates, sessions, unseen>>

SessionNext ==
  \/ \E c \in Creates : \/ LookUpKey(c) \/ CountActive(c) \/ InsertSession(c)
                        \/ \E open \in BOOLEAN : PassGates(c, open)
                        \/ CancelReads(c)
                        \/ \E to \in ActiveStates \union TERMINAL : DispatcherMoves(c, to)
  \/ CancelWrites
  \/ \E up \in BOOLEAN : SetCancelFlag(up)

SessionSpec == SessionInit /\ [][SessionNext]_sessionVars

----------------------------------------------------------------------------
(* Properties.                                                             *)

\* However many requests with one key pass the look-up together, one session stands
\* for the key, and a replay is answered with a session of the same key and body
\* (uq_ma_session_idempotency, _idempotency_body_matches).
OneSessionPerKey ==
  /\ \A s, t \in Rows : KeyOf[s] = KeyOf[t] /\ KeyOf[s] # NoIdemKey => s = t
  /\ \A c \in Creates :
       /\ creates[c].reply = "created" <=> c \in Rows
       /\ creates[c].reply = "replayed" => \E s \in SameKey(c) : bodyOf[s] = bodyOf[c]

\* The sessions that are not over and the creates that will insert one exceed the cap by no more
\* than a single count could not see: creates that follow each other while one session is
\* queued exceed it by one, not by one each (count_active_sessions, create_session).
CapButForUnseen ==
  Cardinality(Active \union Queued \union Inserting) <= MAX_CONCURRENT_PER_USER + unseen

\* A cancellation that was answered is not lost to the pick-up of the session: it has
\* ended or the dispatcher finds the flag (cancel_session).
CancelIsHeard == \A s \in heard : sessions[s] \in TERMINAL \/ s \in flags

\* All three: whatever creates, cancellations and the dispatcher do between each other's
\* steps, a key has one session, the cap is exceeded by no more than a count cannot see and a
\* cancellation is heard (routers/v1/ma/sessions.py).
SessionsAccounted == OneSessionPerKey /\ CapButForUnseen /\ CancelIsHeard

\* "The active-session cap check runs in the same transaction as the subsequent INSERT so a
\* racing client cannot smuggle two sessions through the gap" (ma/queries.py): no more than the
\* cap run at once.  The code does not keep it: a READ COMMITTED count sees neither a queued
\* session nor another create's insert.
ConcurrentCapHolds == Cardinality(Active) <= MAX_CONCURRENT_PER_USER
=============================================================================
