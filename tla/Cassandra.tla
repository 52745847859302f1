----------------------------- MODULE Cassandra -----------------------------
(***************************************************************************)
(* The prediction engine: a scan before the pipeline runs and one after    *)
(* each specialist completes.  A scan waits at every publish, so scans of  *)
(* one run interleave over the maps of the engine; a publish that rejects  *)
(* ends its scan.  The model is of one pipeline run.  A specialist's       *)
(* passes touch nothing shared and are one step.  Scores are in tenths.    *)
(* A specialist is named by the index of its step: the engine looks a step *)
(* up by its specialist (triggered_step_index), a topology has each once.  *)
(***************************************************************************)
EXTENDS Naturals, Sequences, FiniteSets

CONSTANTS
  SPECIALISTS, \* steps of the topology
  PASSES,   \* passes per specialist
  Scores,   \* the averages a specialist's passes can come to, 0..10
  SCANS     \* bound: scans begun

ASSUME CassandraAssumption ==
  SPECIALISTS \in Nat \ {0} /\ PASSES \in Nat \ {0} /\ Scores \subseteq 0..10 /\ SCANS \in Nat \ {0}

VARIABLES
  engine,    \* [known, completed, latest, warnings]; latest is the sequence number
             \* of a scan; a warning is [topic, scan, on]
  scans,     \* scans begun: their locals [kind, targets, phase, entries, degraded, left];
             \* targets and left are what their loops still have before them
  untold     \* history: the places of the warnings whose publish rejected

cassandraVars == <<engine, scans, untold>>

THRESHOLD == 6 \* DEFAULT_WARNING_THRESHOLD
Specialists == 1..SPECIALISTS
NoScan == 0

CassandraInit ==
  /\ engine = [known |-> FALSE, completed |-> {}, latest |-> NoScan, warnings |-> <<>>]
  /\ scans = <<>> /\ untold = {}

\* evaluateThreshold: what a score is told as, if it crosses the threshold.
Severity(score) ==
  CASE score >= THRESHOLD -> "none"
    [] score \in 4..(THRESHOLD - 1) -> "review_recommended"
    [] OTHER -> "halt_recommended"

Said(topic, n, on) == [topic |-> topic, scan |-> n, on |-> on]

\* The scan's id is taken, and its targets fixed, before the first wait.
Begin(kind, targets, phase) ==
  scans' = Append(scans, [kind |-> kind, targets |-> targets, phase |-> phase,
                          entries |-> {}, degraded |-> {}, left |-> {}])

RunPreExecutionScan ==
  /\ Len(scans) < SCANS
  /\ engine' = [engine EXCEPT !.known = TRUE, !.completed = {}]
  /\ Begin("pre_execution", Specialists, "start")
  /\ UNCHANGED untold

\* A scan after a completion looks at the steps that remain, or at all of them at the end;
\* with a map to replace it first says so.
ReSimulate(s) ==
  LET done      == engine.completed \union {s}
      remaining == Specialists \ done
  IN /\ engine.known /\ Len(scans) < SCANS
     /\ engine' = [engine EXCEPT !.completed = done]
     /\ Begin(IF remaining = {} THEN "final" ELSE "re_simulation",
              IF remaining = {} THEN Specialists ELSE remaining,
              IF engine.latest = NoScan THEN "start" ELSE "trigger")
     /\ UNCHANGED untold

\* The publishes before the passes resolve.
ScanStarts(n) ==
  /\ scans[n].phase \in {"trigger", "start"}
  /\ scans' = [scans EXCEPT ![n].phase = IF @ = "trigger" THEN "start" ELSE "passes"]
  /\ UNCHANGED <<engine, untold>>

\* emitEarlyWarning: kept in the history, then published; a publish that rejects ends the
\* scan, and the history keeps the warning.
EmitEarlyWarning(n, on, severity, arrived) ==
  /\ engine' = [engine EXCEPT !.warnings = Append(@, Said(severity, n, on))]
  /\ untold' = IF arrived THEN untold ELSE untold \union {Len(engine.warnings) + 1}

After(arrived, phase) == IF arrived THEN phase ELSE "threw"

\* What the passes of a specialist come to: how many gave a sample, with which average.
Outcomes == (0..PASSES) \X Scores

MostlyFailed(executed) == 2 * executed < PASSES

Entry(s, outcome) == IF outcome[1] = 0 THEN {} ELSE {[on |-> s, score |-> outcome[2]]}

\* runPassesForSpecialist: a pass is tried three times, then dropped.  Without a sample the
\* specialist has no entry; with most passes failed it has one and an advisory.
PassesDone(n, s) ==
  /\ scans[n].phase = "passes"
  /\ s \in scans[n].targets /\ \A r \in scans[n].targets : s <= r
  /\ \E outcome \in Outcomes, arrived \in BOOLEAN :
       /\ arrived \/ MostlyFailed(outcome[1])
       /\ scans' = [scans EXCEPT
            ![n].phase = After(arrived, @),
            ![n].targets = @ \ {s},
            ![n].entries = @ \union Entry(s, outcome),
            ![n].degraded = IF MostlyFailed(outcome[1]) THEN @ \union {s} ELSE @]
       /\ IF MostlyFailed(outcome[1]) THEN EmitEarlyWarning(n, s, "advisory", arrived)
          ELSE UNCHANGED <<engine, untold>>

\* The map is stored and emitted when the aggregate is published.
Aggregated(n) ==
  /\ scans[n].phase = "passes" /\ scans[n].targets = {}
  /\ engine' = [engine EXCEPT !.latest = n]
  /\ scans' = [scans EXCEPT ![n].phase = "completing"]
  /\ UNCHANGED untold

\* The map whose entries are warned about: the scan's own, not the engine's.
LatestMap(n) == scans[engine.latest].entries
MapOf(n) == scans[n].entries

Crossing(n) == {e \in MapOf(n) : Severity(e.score) # "none"}

\* emitScanCompleted resolves; the entries that cross are still to be told.
ScanCompleted(n) ==
  /\ scans[n].phase = "completing"
  /\ scans' = [scans EXCEPT ![n].phase = "warning", ![n].left = Crossing(n)]
  /\ UNCHANGED <<engine, untold>>

IssueThresholdWarning(n, e, arrived) ==
  /\ scans[n].phase = "warning"
  /\ e \in scans[n].left /\ \A f \in scans[n].left : e.on <= f.on
  /\ EmitEarlyWarning(n, e.on, Severity(e.score), arrived)
  /\ scans' = [scans EXCEPT ![n].left = @ \ {e}, ![n].phase = After(arrived, @)]

ScanReturns(n) ==
  /\ scans[n].phase = "warning" /\ scans[n].left = {}
  /\ scans' = [scans EXCEPT ![n].phase = "returned"]
  /\ UNCHANGED <<engine, untold>>

\* A publish of another kind rejects: the scan throws at that wait.
PublishRejects(n) ==
  /\ scans[n].phase \notin {"returned", "threw"}
  /\ scans' = [scans EXCEPT ![n].phase = "threw"]
  /\ UNCHANGED <<engine, untold>>

CassandraNext ==
  \/ RunPreExecutionScan
  \/ \E s \in Specialists : ReSimulate(s)
  \/ \E n \in DOMAIN scans :
       \/ ScanStarts(n) \/ (\E s \in Specialists : PassesDone(n, s))
       \/ Aggregated(n) \/ ScanCompleted(n)
       \/ (\E e \in scans[n].left, arrived \in BOOLEAN : IssueThresholdWarning(n, e, arrived))
       \/ ScanReturns(n) \/ PublishRejects(n)

CassandraSpec == CassandraInit /\ [][CassandraNext]_cassandraVars

-----------------------------------------------------------------------------
\* The places of a scan's warnings in the history.
Warned(n) == {i \in DOMAIN engine.warnings : engine.warnings[i].scan = n}

\* The history of a run is what the bus was told of it but for the publishes that rejected,
\* and each of those is the last warning of a scan that threw, whatever scans interleave: a
\* scan says nothing after a warning that did not arrive (emitEarlyWarning).
UntoldEndsItsScan ==
  \A i \in untold :
    /\ i \in DOMAIN engine.warnings
    /\ scans[engine.warnings[i].scan].phase = "threw"
    /\ \A j \in Warned(engine.warnings[i].scan) : j <= i

\* Advisories come before thresholds, each in the order of the steps.
Precedes(v, w) ==
  \/ v.topic = "advisory" /\ w.topic # "advisory"
  \/ (v.topic = "advisory" <=> w.topic = "advisory") /\ v.on < w.on

\* A scan that returned warned of each specialist whose passes mostly failed and of each of
\* its own entries below the threshold, of nothing else, and of each once and in the order of
\* the steps, however many scans interleave (issueThresholdWarnings).
ReturnedScanWarnedOnce ==
  \A n \in DOMAIN scans : scans[n].phase = "returned" =>
    /\ {engine.warnings[i] : i \in Warned(n)}
         = {Said("advisory", n, s) : s \in scans[n].degraded}
             \union {Said(Severity(e.score), n, e.on) : e \in {x \in scans[n].entries : x.score < THRESHOLD}}
    /\ \A i, j \in Warned(n) : i < j => Precedes(engine.warnings[i], engine.warnings[j])
=============================================================================
