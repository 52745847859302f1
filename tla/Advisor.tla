------------------------------ MODULE Advisor ------------------------------
(***************************************************************************)
(* Apollo, the advisor: the session with its turns, the calls that run     *)
(* side by side on it (a user's turn with the hand-offs to the pillar      *)
(* leads, a prediction map, the blueprint moment, a change of strategy),   *)
(* and the composer of AdvisorChat, which sends one turn at a time.  Every *)
(* await of the agent ends a step.  The session store replaces the whole   *)
(* session at each write, from the one it reads in the same step.          *)
(***************************************************************************)
EXTENDS Naturals, Sequences, FiniteSets

CONSTANTS
  Pillars,    \* the pillars a text can be about
  Registered, \* those a lead is registered for
  Strategies, \* model strategies
  TURNS       \* bound: turns the user sends

ASSUME AdvisorAssumption == Registered \subseteq Pillars /\ Strategies # {} /\ TURNS \in Nat

VARIABLES
  dialogue, \* the AdvisorSession: [turns, strategy]; a turn is [id, role, attached]
  under,    \* the strategy the requests of the running turn carry
  user,     \* receiveUserTurn: where it waits, "idle" when it does not run
  leads,    \* the dispatch of the running turn to each pillar
  notes,    \* renderPredictionMap and presentBlueprintMoment: [at, turn] of each
  ids,      \* turns made so far
  announced, \* ghost: turns handed to publish with advisor.turn.appended
  handoffs, \* ghost: pipeline hand-offs of the running turn, a sequence of states per pillar
  crossed,  \* ghost: a turn was appended while a note was being announced
  composer  \* AdvisorChat: [draft, submitting, toast, sent]

advisorVars == <<dialogue, under, user, leads, notes, ids, announced, handoffs, crossed, composer>>

Notes == {"prediction_warning", "blueprint_reveal"}
LeadEnds == {"accepted", "deferred", "rejected"}

AdvisorInit ==
  /\ dialogue \in [turns : {<<>>}, strategy : Strategies] /\ under = dialogue.strategy
  /\ user = "idle" /\ leads = [p \in Pillars |-> "off"]
  /\ notes = [n \in Notes |-> [at |-> "off", turn |-> 0]]
  /\ ids = 0 /\ announced = {} /\ handoffs = [p \in Pillars |-> <<>>] /\ crossed = FALSE
  /\ composer = [draft |-> FALSE, submitting |-> FALSE, toast |-> FALSE, sent |-> 0]

\* appendTurn: the turns the store has now, and the new one.
AppendTurn(role) ==
  /\ ids' = ids + 1
  /\ dialogue' = [dialogue EXCEPT !.turns = Append(@, [id |-> ids + 1, role |-> role,
                                                     attached |-> FALSE])]
  /\ announced' = announced \union {ids + 1}
  /\ crossed' = (crossed \/ \E n \in Notes : notes[n].at = "announcing")

(***************************************************************************)
(* The composer.                                                           *)
(***************************************************************************)
TypeDraft == /\ ~composer.submitting /\ ~composer.draft
             /\ composer' = [composer EXCEPT !.draft = TRUE]
             /\ UNCHANGED <<dialogue, under, user, leads, notes, ids, announced, handoffs, crossed>>

ToastFades == /\ composer.toast /\ composer' = [composer EXCEPT !.toast = FALSE]
              /\ UNCHANGED <<dialogue, under, user, leads, notes, ids, announced, handoffs, crossed>>

\* handleSubmit calls receiveUserTurn, which appends the user's turn in the same step.
MaySubmit == composer.draft /\ ~composer.submitting

ReceiveUserTurn ==
  /\ MaySubmit /\ composer.sent < TURNS
  /\ composer' = [composer EXCEPT !.submitting = TRUE, !.sent = @ + 1]
  /\ user' = "parsing" /\ AppendTurn("user")
  /\ leads' = [p \in Pillars |-> "off"] /\ handoffs' = [p \in Pillars |-> <<>>]
  /\ UNCHANGED <<under, notes>>

ParseFails ==
  /\ user = "parsing" /\ user' = "idle"
  /\ composer' = [composer EXCEPT !.submitting = FALSE, !.toast = TRUE]
  /\ UNCHANGED <<dialogue, under, leads, notes, ids, announced, handoffs, crossed>>

\* An ambiguous text asks back; any other goes to the pillars it is about, all at once.
DispatchInternal(ps) ==
  /\ leads' = [p \in Pillars |-> IF p \notin ps THEN "off"
                                 ELSE IF p \in Registered THEN "waiting" ELSE "rejected"]
  /\ handoffs' = [p \in Pillars |-> IF p \in ps \cap Registered THEN <<"dispatching">> ELSE <<>>]

IntentParsed ==
  /\ user = "parsing"
  /\ \/ user' = "replying" /\ UNCHANGED <<leads, handoffs, under>>
     \/ /\ user' = "dispatching" /\ under' = dialogue.strategy
        /\ \E ps \in SUBSET Pillars \ {{}} : DispatchInternal(ps)
  /\ UNCHANGED <<dialogue, notes, ids, announced, crossed, composer>>

(***************************************************************************)
(* The leads.  withTimeout races the lead's answer with a timer; the loser *)
(* changes nothing.  wrapDispatchError turns a throw into a rejection.     *)
(***************************************************************************)
LeadAnswers(p, status) ==
  /\ leads[p] = "waiting"
  /\ handoffs' = [handoffs EXCEPT ![p] = Append(@, status)]
  /\ leads' = [leads EXCEPT ![p] = IF status = "rejected" THEN "rejecting" ELSE status]
  /\ UNCHANGED <<dialogue, under, user, notes, ids, announced, crossed, composer>>

WrapDispatchError(p) == \* a timeout, a throw of the lead or of the generator
  /\ leads[p] \in {"waiting", "rejecting"} /\ leads' = [leads EXCEPT ![p] = "rejected"]
  /\ UNCHANGED <<dialogue, under, user, notes, ids, announced, handoffs, crossed, composer>>

EmitSystemRejectTurn(p) ==
  /\ leads[p] = "rejecting" /\ leads' = [leads EXCEPT ![p] = "announcing"] /\ AppendTurn("system")
  /\ UNCHANGED <<under, user, notes, handoffs, composer>>

RejectAnnounced(p) ==
  /\ leads[p] = "announcing" /\ leads' = [leads EXCEPT ![p] = "rejected"]
  /\ UNCHANGED <<dialogue, under, user, notes, ids, announced, handoffs, crossed, composer>>

\* Promise.all: the reply waits for every lead.
AnyLeadSettled == \E p \in Pillars : leads[p] \in LeadEnds
AllLeadsSettled == \A p \in Pillars : leads[p] \in LeadEnds \union {"off"}

LeadsDone ==
  /\ user = "dispatching" /\ AllLeadsSettled /\ user' = "replying"
  /\ UNCHANGED <<dialogue, under, leads, notes, ids, announced, handoffs, crossed, composer>>

EmitAdvisorTurn ==
  /\ user = "replying" /\ user' = "announcing" /\ AppendTurn("advisor")
  /\ UNCHANGED <<under, leads, notes, handoffs, composer>>

ReplyAnnounced ==
  /\ user = "announcing" /\ user' = "idle"
  /\ composer' = [composer EXCEPT !.submitting = FALSE, !.draft = FALSE]
  /\ UNCHANGED <<dialogue, under, leads, notes, ids, announced, handoffs, crossed>>

ReplyFails == \* the generator throws or a publish rejects: the draft stays, to be sent again
  /\ user \in {"replying", "announcing"} /\ user' = "idle"
  /\ composer' = [composer EXCEPT !.submitting = FALSE, !.toast = TRUE]
  /\ UNCHANGED <<dialogue, under, leads, notes, ids, announced, handoffs, crossed>>

(***************************************************************************)
(* The pipeline's calls: a turn is emitted, announced, and then replaced   *)
(* by itself with a component attached: the last turn of the session is    *)
(* dropped for it, whichever turn that is.                                 *)
(***************************************************************************)
StartNote(n) ==
  /\ notes[n].at = "off" /\ notes' = [notes EXCEPT ![n].at = "generating"]
  /\ UNCHANGED <<dialogue, under, user, leads, ids, announced, handoffs, crossed, composer>>

EmitNote(n) ==
  /\ notes[n].at = "generating"
  /\ notes' = [notes EXCEPT ![n] = [at |-> "announcing", turn |-> ids + 1]]
  /\ AppendTurn("advisor")
  /\ UNCHANGED <<under, user, leads, handoffs, composer>>

Enriched(n) == [id |-> notes[n].turn, role |-> "advisor", attached |-> TRUE]
ReplaceLast(n) == Append(SubSeq(dialogue.turns, 1, Len(dialogue.turns) - 1), Enriched(n))

NoteAnnounced(n) ==
  /\ notes[n].at = "announcing" /\ notes' = [notes EXCEPT ![n].at = "done"]
  /\ dialogue' = [dialogue EXCEPT !.turns = ReplaceLast(n)]
  /\ UNCHANGED <<under, user, leads, ids, announced, handoffs, crossed, composer>>

\* The selector is disabled while a turn is sent.
ToggleModelStrategy(s) ==
  /\ ~composer.submitting
  /\ s # dialogue.strategy /\ dialogue' = [dialogue EXCEPT !.strategy = s]
  /\ UNCHANGED <<under, user, leads, notes, ids, announced, handoffs, crossed, composer>>

AdvisorNext ==
  \/ TypeDraft \/ ToastFades \/ ReceiveUserTurn \/ ParseFails \/ IntentParsed
  \/ LeadsDone \/ EmitAdvisorTurn \/ ReplyAnnounced \/ ReplyFails
  \/ \E p \in Pillars : \/ WrapDispatchError(p) \/ EmitSystemRejectTurn(p) \/ RejectAnnounced(p)
                        \/ \E s \in LeadEnds : LeadAnswers(p, s)
  \/ \E n \in Notes : StartNote(n) \/ EmitNote(n) \/ NoteAnnounced(n)
  \/ \E s \in Strategies : ToggleModelStrategy(s)

\* A lead is raced with a timer (withTimeout), and Promise.all goes on once all have settled.
\* The parser, the generator and the publishers are awaited without one; a user need not type.
LeadSettles(p) == WrapDispatchError(p) \/ \E s \in LeadEnds : LeadAnswers(p, s)

AdvisorSpec ==
  /\ AdvisorInit /\ [][AdvisorNext]_advisorVars
  /\ WF_advisorVars(LeadsDone)
  /\ \A p \in Pillars : WF_advisorVars(leads[p] = "waiting" /\ LeadSettles(p))

\* What the advisor relies on: what it awaits answers or throws.
PromisesSettle ==
  /\ WF_advisorVars(IntentParsed \/ ParseFails)
  /\ WF_advisorVars(EmitAdvisorTurn \/ (user = "replying" /\ ReplyFails))
  /\ WF_advisorVars(ReplyAnnounced \/ (user = "announcing" /\ ReplyFails))
  /\ \A p \in Pillars :
       /\ WF_advisorVars(EmitSystemRejectTurn(p) \/ (leads[p] = "rejecting" /\ WrapDispatchError(p)))
       /\ WF_advisorVars(RejectAnnounced(p))

(***************************************************************************)
(* Properties.                                                             *)
(***************************************************************************)
TurnIds == {dialogue.turns[i].id : i \in DOMAIN dialogue.turns}

\* What the subscribers were told of stays in the transcript, once: a turn is lost, or shown
\* twice, only when it was appended while a note was being announced.
TranscriptKeepsTurns ==
  ~crossed => TurnIds = announced /\ Cardinality(TurnIds) = Len(dialogue.turns)
\* The answer is written (with the strategy's honest-claim note) under the strategy the hand-offs
\* of the same turn carried, though it is read again after all the leads have ended.
OneStrategyPerTurn ==
  user \in {"replying", "announcing"} /\ AnyLeadSettled => dialogue.strategy = under
\* The reply comes after every lead of the turn has ended, and a hand-off that was opened is
\* closed at most once, with the status the lead ended with.
RepliesAfterTheLeads ==
  /\ user \in {"replying", "announcing"} => \A p \in Pillars : leads[p] \in LeadEnds \union {"off"}
  /\ \A p \in Pillars : /\ Len(handoffs[p]) <= 2
                        /\ Len(handoffs[p]) = 2 /\ leads[p] \in LeadEnds => handoffs[p][2] = leads[p]
\* The composer is busy exactly while its turn runs.
ComposerBusyWithItsTurn == composer.submitting <=> user # "idle"
\* It is given back in the end, whatever the leads do, when parser and generator settle.
ComposerComesBack == PromisesSettle => (composer.submitting ~> ~composer.submitting)

=============================================================================
