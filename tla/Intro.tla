------------------------------- MODULE Intro -------------------------------
(***************************************************************************)
(* IntroNarrativeScene: five acts driven by browser timers and by fades of *)
(* the camera, which the viewer may skip at any moment. A fade out keeps   *)
(* the callbacks registered during it and runs them all when it completes. *)
(***************************************************************************)
EXTENDS Naturals, FiniteSets

VARIABLE intro   \* [act, timers, fade, dismissed, waiting, seen, started]

introVars == <<intro>>

\* What an act schedules: "reveal" is a typewriter interval, "beat" the tweens
\* and lines of the act, "leave" the timer that ends it.
s1_hook == [timers |-> {"reveal"}, glitch |-> FALSE]
s2_problem == [timers |-> {"beat", "leave"}, glitch |-> TRUE]
s3_brand == [timers |-> {"reveal", "beat", "leave"}, glitch |-> FALSE]
s4_pillars == [timers |-> {"beat", "leave"}, glitch |-> TRUE]
s5_founder == [timers |-> {"reveal"}, glitch |-> FALSE]
Acts == <<s1_hook, s2_problem, s3_brand, s4_pillars, s5_founder>>

TimersOf(n) == {<<n, t>> : t \in Acts[n].timers}
Later(i, n, t) == [i EXCEPT !.timers = @ \union {<<n, t>>}]

RunScene(i, n) ==
  IF i.dismissed THEN i ELSE [i EXCEPT !.act = n, !.timers = @ \union TimersOf(n)]

\* An unfinished fade is restarted; its callbacks stay registered.
CrossfadeAndStart(i) == IF i.dismissed THEN i ELSE [i EXCEPT !.fade = @ \union {"cross"}]

GlitchFrame(i, n) == Later(i, n, "glitch")

RevealDone(i, n) ==
  CASE n = 1 -> Later(i, n, "leave")
    [] n = 5 -> [i EXCEPT !.waiting = TRUE]
    [] OTHER -> i

\* In a tab in the background an interval may outlast its act: a callback belongs
\* to the act that scheduled it. A beat of the third act starts its tagline.
FireTimer ==
  \E t \in intro.timers :
    LET i == [intro EXCEPT !.timers = @ \ {t}]
        n == t[1]
    IN intro' = CASE t[2] = "reveal" -> RevealDone(i, n)
                  [] t[2] = "beat" -> IF n = 3 THEN Later(i, n, "reveal") ELSE i
                  [] t[2] = "leave" -> IF Acts[n].glitch THEN GlitchFrame(i, n) ELSE CrossfadeAndStart(i)
                  [] t[2] = "glitch" -> CrossfadeAndStart(i)

CleanupAll(i) == [i EXCEPT !.timers = {}]

SkipNow(i) ==
  IF i.dismissed THEN i
  ELSE [CleanupAll([i EXCEPT !.dismissed = TRUE, !.seen = TRUE]) EXCEPT !.fade = @ \union {"finish"}]

\* Escape and a click at any time; Space and Enter once the last act waits.
Skip ==
  /\ intro.started = 0 /\ ~intro.dismissed
  /\ intro' = SkipNow(intro)

FadeDone ==
  /\ intro.fade # {}
  /\ LET i == [intro EXCEPT !.fade = {}]
         n == IF "cross" \in intro.fade THEN RunScene(i, IF i.dismissed THEN i.act ELSE i.act + 1) ELSE i
     IN intro' = IF "finish" \in intro.fade THEN [n EXCEPT !.started = @ + 1] ELSE n

\* The first act runs in create, and whether the intro was seen is per session.
IntroInit ==
  intro = RunScene([act |-> 0, timers |-> {}, fade |-> {}, dismissed |-> FALSE, waiting |-> FALSE,
                    seen |-> FALSE, started |-> 0], 1)

IntroNext == FireTimer \/ Skip \/ FadeDone

IntroSpec == IntroInit /\ [][IntroNext]_introVars /\ WF_introVars(FireTimer) /\ WF_introVars(FadeDone)

(***************************************************************************)
(* Properties.                                                             *)
(***************************************************************************)
\* A skip in the middle of an act, of a glitch or of a crossfade ends the intro:
\* no timer is left to draw on destroyed objects, and the village starts once.
SkipEndsTheIntro ==
  /\ intro.dismissed => intro.timers = {}
  /\ intro.started <= 1 /\ (intro.started = 1 => intro.dismissed /\ intro.fade = {})

\* One act is on at a time: its end is due once, and the next one has not begun.
OneActAtATime ==
  Cardinality({t \in intro.timers : t[2] \in {"leave", "glitch"}})
    + (IF "cross" \in intro.fade THEN 1 ELSE 0) <= 1

\* Left alone the intro reaches its last line and waits there; skipped, it ends.
IntroComesToAnEnd == <>(intro.waiting \/ intro.started = 1)
=============================================================================
