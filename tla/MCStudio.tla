------------------------------- MODULE MCStudio -------------------------------
(***************************************************************************)
(* The builder's studio: the intro, the advisor, the runs of an agent, the *)
(* sessions behind them and what a user sees of the money: the constants   *)
(* their components are checked with, and one specification that runs any  *)
(* one of them, as in MCGame, with the fairness each of them is given.     *)
(***************************************************************************)
EXTENDS Intro, Advisor, Executor, TicketStream, Protocol, Tiers, Dashboards, MaSession,
        MaStream

CONSTANT Parts    \* the components a run checks
VARIABLE part     \* the one that moves

----------------------------------------------------------------------------
(* Values of the constants.                                                *)

TwoAssigned == <<[task |-> "strategy", vendor |-> "anthropic", status |-> "real"],
                 [task |-> "image_generation", vendor |-> "gemini", status |-> "mock"]>>

ThreeTiers == <<"free", "pro", "team">>

TwoRuns == {"run_a", "run_b"}
FourReadings ==
  [m1 |-> [run |-> "run_a", specialist |-> "lumio", cost |-> 1],
   m2 |-> [run |-> "run_a", specialist |-> "harmonia", cost |-> 2],
   m3 |-> [run |-> "run_a", specialist |-> "lumio", cost |-> -1],
   m4 |-> [run |-> "run_b", specialist |-> "lumio", cost |-> 3]]

ThreePayouts == [p1 |-> 1, p2 |-> 2, p3 |-> 4]
Periods == [last_7d |-> 2, all_time |-> 0]

\* Two requests with one key and one with none; all ask for the same or each for its own.
ThreeCreates == {"c1", "c2", "c3"}
KeysOfCreates == [c \in ThreeCreates |-> IF c = "c3" THEN "no key" ELSE "k"]
BodiesOfCreates == {[c \in ThreeCreates |-> "b"], [c \in ThreeCreates |-> c]}

\* The messages of the intents: each role with what it may hold, the user's turn with an empty
\* text beside its image, an answer to a call and one to none; up to three in any order.
Message(role, text, attachments) ==
  [role |-> role, text |-> text, answer |-> NoText, call |-> FALSE,
   attachments |-> attachments, tag |-> FALSE, cache |-> FALSE]

Image(ref) == [kind |-> "image", ref |-> ref]

Messages ==
  {[Message("system", "persona", <<>>) EXCEPT !.tag = TRUE, !.cache = TRUE],
   Message("system", NoText, <<Image("link")>>),
   [Message("user", "ask", <<Image("link")>>) EXCEPT !.cache = TRUE],
   Message("user", "", <<Image("inline"), Image("file")>>),
   Message("user", NoText, <<[kind |-> "pdf", ref |-> "link"]>>),
   Message("assistant", "reply", <<>>),
   [Message("tool_result", NoText, <<>>) EXCEPT !.answer = "found", !.call = TRUE],
   [Message("tool_result", NoText, <<Image("link")>>) EXCEPT !.answer = "lost"]}

UpToThree(format) ==
  {[id |-> "own", messages |-> ms, format |-> format] : ms \in UNION {[1..n -> Messages] : n \in 1..3}}

ShortIntents == UpToThree("text") \cup {[id |-> "own", messages |-> <<m>>, format |-> f] :
                                          m \in Messages, f \in {"json", "xml"}}

LumioIntent ==
  [id |-> "lumio", format |-> "text",
   messages |-> <<[Message("system", "persona", <<>>) EXCEPT !.tag = TRUE, !.cache = TRUE],
                  Message("user", "ask", <<Image("link")>>)>>]

Windows == [claude |-> 5, gemini |-> 5]

----------------------------------------------------------------------------
(* The composition.                                                        *)

studioVars == <<part, introVars, advisorVars, executorVars, ticketVars, planVars,
              tiersVars, meterVars, pulseVars, earningsVars, invoiceVars,
              sessionVars, streamVars, demoVars>>

\* The part p moves and no other does.
Only(p) ==
  /\ part = p /\ UNCHANGED part
  /\ p # "intro" => UNCHANGED introVars
  /\ p # "advisor" => UNCHANGED advisorVars
  /\ p # "executor" => UNCHANGED executorVars
  /\ p # "ticket" => UNCHANGED ticketVars
  /\ p # "vendors" => UNCHANGED planVars
  /\ p # "tiers" => UNCHANGED tiersVars
  /\ p # "meter" => UNCHANGED meterVars
  /\ p # "pulse" => UNCHANGED pulseVars
  /\ p # "earnings" => UNCHANGED earningsVars
  /\ p # "invoices" => UNCHANGED invoiceVars
  /\ p # "sessions" => UNCHANGED sessionVars
  /\ p # "events" => UNCHANGED streamVars
  /\ p # "translation" => UNCHANGED demoVars

\* Parts that may start in several states start in one of them when they do not move.
StudioInit ==
  /\ part \in Parts
  /\ AdvisorInit /\ (part # "advisor" => under = CHOOSE s \in Strategies : TRUE)
  /\ ExecutorInit /\ (part # "executor" => lane = "anthropic_managed")
  /\ TiersInit
  /\ part # "tiers" => account.plan = NoPlan /\ account.status = "active" /\ account.signedIn
  /\ MeterInit /\ (part # "meter" => meter.run = NoRun /\ meter.currency = "USD")
  /\ PulseInit /\ (part # "pulse" => stream.density = "low" /\ stream.currency = "USD")
  /\ EarningsInit /\ (part # "earnings" => period = CHOOSE p \in DOMAIN WINDOW_DAYS : TRUE)
  /\ IntroInit /\ TicketInit /\ PlanInit /\ InvoicesInit
  /\ SessionInit /\ (part # "sessions" => bodyOf = CHOOSE b \in BODIES : TRUE)
  /\ StreamInit
  /\ DemoInit /\ (part # "translation" => demo = Fresh(PREBAKED_INTENT, FALSE))

StudioNext ==
  \/ Only("intro") /\ IntroNext
  \/ Only("advisor") /\ AdvisorNext
  \/ Only("executor") /\ ExecutorNext
  \/ Only("ticket") /\ TicketNext
  \/ Only("vendors") /\ PlanNext
  \/ Only("tiers") /\ TiersNext
  \/ Only("meter") /\ MeterNext
  \/ Only("pulse") /\ PulseNext
  \/ Only("earnings") /\ EarningsNext
  \/ Only("invoices") /\ InvoicesNext
  \/ Only("sessions") /\ SessionNext
  \/ Only("events") /\ StreamNext
  \/ Only("translation") /\ DemoNext

\* What each part may count on of the program itself: the timers of the intro fire and its
\* fades end, a builder step is begun and a stub answers, a lead that is not answered is timed
\* out and its turn goes on.  What is awaited without a time-out is a premise of the property.
StudioFairness ==
  /\ WF_studioVars(Only("intro") /\ FireTimer)
  /\ WF_studioVars(Only("intro") /\ FadeDone)
  /\ WF_studioVars(Only("executor") /\ Execute)
  /\ WF_studioVars(Only("executor") /\ StubAnswers)
  /\ WF_studioVars(Only("advisor") /\ LeadsDone)
  /\ \A p \in Pillars : WF_studioVars(Only("advisor") /\ leads[p] = "waiting" /\ LeadSettles(p))

StudioSpec == StudioInit /\ [][StudioNext]_studioVars /\ StudioFairness

----------------------------------------------------------------------------
(* Properties, of one component or of several with one promise.            *)

\* The intro, the advisor and the event log of a session keep their order: one act at a time
\* and one start of the village, one turn at a time with its reply after its leads, events as
\* they were written, whatever is skipped, clicked, dropped or answered late
\* (IntroNarrativeScene; apollo.ts and AdvisorChat; sse_stream.py).
KeptInOrder ==
  /\ SkipEndsTheIntro /\ OneActAtATime
  /\ TranscriptKeepsTurns /\ OneStrategyPerTurn /\ RepliesAfterTheLeads
  /\ ComposerBusyWithItsTurn
  /\ EventsReadInOrder

\* What a user reads of the plan and of the money is what the choices, edits, events, answers
\* and payouts say, however they overtake each other: the vendors of the tasks, the intent they
\* are told, the tier, the live cost, the pulses, the bars and the invoices (MultiVendorPanel,
\* TranslationSplit, useSubscriptionTier, cost_ticker, TransactionPulse, EarningsDashboard,
\* TransactionsTable).
AccountShownAsItIs ==
  /\ PlanIsSound /\ EditChangesTheShownTurn /\ RenderedOncePerIntent
  /\ LoadingIsOneRequest /\ TierOfTheLastAnswer /\ SpinnerHasItsCheckout
  /\ CostCountedOnce /\ NoCostLeftUnshown /\ OdometerComesToRest
  /\ PulsesAreTheNewest /\ BarsAddUpToTheTotal /\ LoadingRowIsLoading

\* Nothing waits for ever of its own: the intro reaches its last line or ends, the composer is
\* given back when parser and generator settle, and execute() returns or throws when the
\* provider answers, whatever drops, fails, times out or is rejected on the way.
AllComeToAnEnd ==
  /\ part = "intro" => IntroComesToAnEnd
  /\ part = "advisor" => ComposerComesBack
  /\ part = "executor" => ExecuteReturns
=============================================================================
