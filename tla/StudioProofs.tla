---------------------------- MODULE StudioProofs ----------------------------
(***************************************************************************)
(* Proofs about components of the studio: the ticket stream of the live    *)
(* pane (TicketStream), the managed executor (Executor), the managed-agent *)
(* sessions of a user (MaSession), what keeps its order: the intro         *)
(* (Intro), the advisor (Advisor) and the event log (MaStream), and what   *)
(* an account shows: the dashboards (Tiers, Dashboards), the plan          *)
(* and the demo's editor (Protocol).  They share no variables; each part   *)
(* has its inductive invariant, one lemma per action and its theorems.     *)
(***************************************************************************)
EXTENDS MCStudio, Sums, FiniteSetTheorems, SequenceTheorems, TLAPS

(***************************************************************************)
(* TicketStream, for any set of sessions and any number of runs of the     *)
(* effect: type correctness, and that what is read is the one stream asked *)
(* for last, which the hook holds.  The invariant that needs proving is    *)
(* about the closures: only the newest is not cancelled, and a cancelled   *)
(* one reads nothing.                                                      *)
(***************************************************************************)

\* Every closure but the newest was cancelled by its cleanup.
OldRunsAreCancelled == \A i \in DOMAIN runs : i < Len(runs) => runs[i].cancelled

\* A cancelled closure reads nothing, whenever its ticket comes.
CancelledReadsNothing ==
  \A i \in DOMAIN runs : runs[i].cancelled => runs[i].stage \in {"ticket", "gone"}

\* A closure that is not cancelled is for the session of the props.
ActiveRunIsAskedFor ==
  \A i \in DOMAIN runs :
    ~runs[i].cancelled => hook.mounted /\ runs[i].session = hook.session

\* A source that reads is the one of the ref, and nobody closed the stream.
ReadingIsHeld == \A i \in Reading : hook.source = i /\ ~hook.closed

TicketInv ==
  /\ TicketTypeOK
  /\ OldRunsAreCancelled /\ CancelledReadsNothing
  /\ ActiveRunIsAskedFor /\ ReadingIsHeld

----------------------------------------------------------------------------
(* What a step does to the closures.                                       *)

\* The type of hook, when n closures have been made.
HookType(n) ==
  [mounted : BOOLEAN, session : Sessions \union {NoSession}, closed : BOOLEAN, source : 0..n,
   status : {"idle", "authenticating", "connecting", "open", "closed", "error"}]

LEMMA HookTyped == TicketInv => hook \in HookType(Len(runs)) /\ Len(runs) \in Nat
BY LenProperties DEF TicketInv, TicketTypeOK, HookType

\* One closure is changed in place.
LEMMA RunChanged ==
  ASSUME TicketTypeOK, NEW i \in DOMAIN runs, NEW st \in RunStages
  PROVE  LET rs == [runs EXCEPT ![i].stage = st] IN
         /\ rs \in Seq(Closure) /\ Len(rs) = Len(runs) /\ DOMAIN rs = DOMAIN runs
         /\ \A j \in DOMAIN runs : j # i => rs[j] = runs[j]
         /\ rs[i] = [runs[i] EXCEPT !.stage = st]
<1> DEFINE c == [runs[i] EXCEPT !.stage = st]
<1>1. runs \in Seq(Closure) /\ DOMAIN runs = 1..Len(runs)
  BY LenProperties DEF TicketTypeOK, Closure
<1>2. runs[i] \in Closure
  BY <1>1, ElementOfSeq
<1>3. c \in Closure
  BY <1>2 DEF Closure
<1>4. [runs EXCEPT ![i] = c] = [runs EXCEPT ![i].stage = st]
  OBVIOUS
<1> HIDE DEF c
<1>5. [runs EXCEPT ![i] = c] \in Seq(Closure)
  BY <1>1, <1>3, ExceptSeq
<1>6. Len([runs EXCEPT ![i] = c]) = Len(runs)
  BY <1>1, <1>3, ExceptSeq
<1>7. \A j \in 1..Len(runs) : [runs EXCEPT ![i] = c][j] = IF j = i THEN c ELSE runs[j]
  BY <1>1, <1>3, ExceptSeq
<1> QED
  BY <1>1, <1>4, <1>5, <1>6, <1>7, LenProperties DEF c

\* The cleanup cancels the newest closure and leaves the others.
LEMMA CleanedUpRuns ==
  ASSUME TicketTypeOK
  PROVE  LET rs == CleanedUp(runs) IN
         /\ rs \in Seq(Closure) /\ Len(rs) = Len(runs) /\ DOMAIN rs = DOMAIN runs
         /\ \A j \in DOMAIN runs : j < Len(runs) => rs[j] = runs[j]
         /\ runs # <<>> => /\ rs[Len(runs)].cancelled
                           /\ rs[Len(runs)].stage \in {"ticket", "gone"}
<1>1. runs \in Seq(Closure) /\ DOMAIN runs = 1..Len(runs) /\ Len(runs) \in Nat
  BY LenProperties DEF TicketTypeOK, Closure
<1>2. CASE runs = <<>>
  BY <1>1, <1>2 DEF CleanedUp
<1>3. CASE runs # <<>>
  <2> DEFINE n == Len(runs)
             c == [runs[n] EXCEPT !.cancelled = TRUE,
                                  !.stage = IF @ \in {"open", "live"} THEN "gone" ELSE @]
  <2>1. n \in 1..Len(runs)
    BY <1>1, <1>3, EmptySeq
  <2>2. runs[n] \in Closure
    BY <1>1, <2>1, ElementOfSeq
  <2>3. c \in Closure /\ c.cancelled /\ c.stage \in {"ticket", "gone"}
    BY <2>2 DEF Closure, RunStages
  <2>4. CleanedUp(runs) = [runs EXCEPT ![n] = c]
    BY <1>1, <1>3, <2>1 DEF CleanedUp
  <2> HIDE DEF c, n
  <2>5. [runs EXCEPT ![n] = c] \in Seq(Closure)
    BY <1>1, <2>1, <2>3, ExceptSeq
  <2>6. Len([runs EXCEPT ![n] = c]) = Len(runs)
    BY <1>1, <2>1, <2>3, ExceptSeq
  <2>7. \A j \in 1..Len(runs) : [runs EXCEPT ![n] = c][j] = IF j = n THEN c ELSE runs[j]
    BY <1>1, <2>1, <2>3, ExceptSeq
  <2>8. DOMAIN [runs EXCEPT ![n] = c] = DOMAIN runs
    OBVIOUS
  <2> QED
    BY <1>1, <2>1, <2>3, <2>4, <2>5, <2>6, <2>7, <2>8 DEF n
<1> QED
  BY <1>2, <1>3

\* The effect adds at most one closure, which reads nothing yet; when the ones before it are
\* cancelled the invariants on the closures hold for the session it was run for.
LEMMA EffectKeepsRuns ==
  ASSUME NEW s \in Sessions \union {NoSession}, NEW rs \in Seq(Closure),
         \A i \in 1..Len(rs) : rs[i].cancelled /\ rs[i].stage \in {"ticket", "gone"},
         runs' = EffectRuns(s, rs), hook'.mounted, hook'.session = s
  PROVE  /\ runs' \in Seq(Closure) /\ Len(runs') \in {Len(rs), Len(rs) + 1}
         /\ OldRunsAreCancelled' /\ CancelledReadsNothing'
         /\ ActiveRunIsAskedFor' /\ ReadingIsHeld'
<1>1. Len(rs) \in Nat /\ DOMAIN rs = 1..Len(rs)
  BY LenProperties
<1>2. CASE s = NoSession
  BY <1>1, <1>2 DEF EffectRuns, OldRunsAreCancelled, CancelledReadsNothing,
     ActiveRunIsAskedFor, ReadingIsHeld, Reading
<1>3. CASE s # NoSession
  <2> DEFINE c == [session |-> s, stage |-> "ticket", cancelled |-> FALSE]
  <2>1. c \in Closure
    BY <1>3 DEF Closure, RunStages
  <2>2. runs' = Append(rs, c)
    BY <1>3 DEF EffectRuns
  <2>3. c.session = s /\ c.stage = "ticket" /\ ~c.cancelled
    OBVIOUS
  <2> HIDE DEF c
  <2>4. /\ runs' \in Seq(Closure) /\ Len(runs') = Len(rs) + 1
        /\ \A i \in 1..Len(rs) : runs'[i] = rs[i]
        /\ runs'[Len(rs) + 1] = c
    BY <2>1, <2>2, AppendProperties
  <2>5. DOMAIN runs' = 1..(Len(rs) + 1)
    BY <2>4, LenProperties
  <2>6. \A i \in DOMAIN runs' :
          \/ i = Len(runs') /\ runs'[i] = c
          \/ i < Len(runs') /\ runs'[i].cancelled /\ runs'[i].stage \in {"ticket", "gone"}
    BY <1>1, <2>4, <2>5
  <2> QED
    BY <2>3, <2>4, <2>6 DEF OldRunsAreCancelled, CancelledReadsNothing,
       ActiveRunIsAskedFor, ReadingIsHeld, Reading
<1> QED
  BY <1>2, <1>3

----------------------------------------------------------------------------
(* The invariant.                                                          *)

LEMMA TicketInitInv == TicketInit => TicketInv
<1> SUFFICES ASSUME TicketInit PROVE TicketInv
  OBVIOUS
<1>1. runs = <<>> /\ DOMAIN runs = {} /\ Len(runs) = 0 /\ runs \in Seq(Closure)
  BY EmptySeq DEF TicketInit
<1> QED
  BY <1>1, TicketAssumption
     DEF TicketInit, TicketInv, TicketTypeOK, OldRunsAreCancelled, CancelledReadsNothing,
         ActiveRunIsAskedFor, ReadingIsHeld, Reading, Closure

\* Whoever is not mounted left cancelled closures only, which read nothing.
LEMMA MountKeeps ==
  ASSUME TicketInv, NEW s \in Sessions \union {NoSession}, MountStream(s)
  PROVE  TicketInv'
<1>1. runs \in Seq(Closure) /\ DOMAIN runs = 1..Len(runs)
  BY LenProperties DEF TicketInv, TicketTypeOK
<1>2. hook'.mounted /\ hook'.session = s /\ runs' = EffectRuns(s, runs)
  BY DEF MountStream
<1>3. \A i \in 1..Len(runs) : runs[i].cancelled /\ runs[i].stage \in {"ticket", "gone"}
  BY <1>1 DEF MountStream, TicketInv, ActiveRunIsAskedFor, CancelledReadsNothing
<1>4. /\ runs' \in Seq(Closure) /\ Len(runs') \in {Len(runs), Len(runs) + 1}
      /\ OldRunsAreCancelled' /\ CancelledReadsNothing'
      /\ ActiveRunIsAskedFor' /\ ReadingIsHeld'
  BY <1>1, <1>2, <1>3, EffectKeepsRuns
<1>5. Len(runs) \in Nat /\ Len(runs) < EFFECTS
  BY LenProperties DEF MountStream, TicketInv, TicketTypeOK
<1>6. Len(runs') \in Nat /\ Len(runs') <= EFFECTS + 1 /\ 0 \in 0..Len(runs')
  BY <1>4, <1>5, TicketAssumption
<1>7. hook' \in HookType(Len(runs'))
  BY <1>6 DEF MountStream, HookType
<1>8. TicketTypeOK'
  BY <1>4, <1>6, <1>7 DEF MountStream, TicketTypeOK, HookType
<1> QED
  BY <1>4, <1>8 DEF TicketInv

\* After a cleanup every closure is cancelled and reads nothing.
LEMMA CleanupLeavesNothing ==
  ASSUME TicketInv
  PROVE  \A i \in DOMAIN CleanedUp(runs) :
           /\ CleanedUp(runs)[i].cancelled
           /\ CleanedUp(runs)[i].stage \in {"ticket", "gone"}
<1>1. TicketTypeOK /\ Len(runs) \in Nat /\ DOMAIN runs = 1..Len(runs)
  BY LenProperties DEF TicketInv, TicketTypeOK
<1>2. \A i \in DOMAIN runs : i < Len(runs) =>
        runs[i].cancelled /\ runs[i].stage \in {"ticket", "gone"}
  BY DEF TicketInv, OldRunsAreCancelled, CancelledReadsNothing
<1>3. /\ DOMAIN CleanedUp(runs) = DOMAIN runs
      /\ \A j \in DOMAIN runs : j < Len(runs) => CleanedUp(runs)[j] = runs[j]
      /\ runs # <<>> => /\ CleanedUp(runs)[Len(runs)].cancelled
                        /\ CleanedUp(runs)[Len(runs)].stage \in {"ticket", "gone"}
  BY <1>1, CleanedUpRuns
<1> SUFFICES ASSUME NEW i \in DOMAIN runs
             PROVE  /\ CleanedUp(runs)[i].cancelled
                    /\ CleanedUp(runs)[i].stage \in {"ticket", "gone"}
  BY <1>3
<1>4. CASE i < Len(runs)
  BY <1>2, <1>3, <1>4
<1>5. CASE i = Len(runs)
  <2>1. runs # <<>>
    BY <1>1
  <2> QED
    BY <1>3, <1>5, <2>1
<1> QED
  BY <1>1, <1>4, <1>5

LEMMA SessionChangesKeeps ==
  ASSUME TicketInv, NEW s \in Sessions \union {NoSession}, SessionChanges(s)
  PROVE  TicketInv'
<1> DEFINE rs == CleanedUp(runs)
<1>1. rs \in Seq(Closure) /\ Len(rs) = Len(runs)
  BY CleanedUpRuns DEF TicketInv
<1>2. \A i \in 1..Len(rs) : rs[i].cancelled /\ rs[i].stage \in {"ticket", "gone"}
  BY <1>1, CleanupLeavesNothing, LenProperties
<1>3. hook'.mounted /\ hook'.session = s /\ runs' = EffectRuns(s, rs)
  BY DEF SessionChanges, TicketInv, TicketTypeOK
<1> HIDE DEF rs
<1>4. /\ runs' \in Seq(Closure) /\ Len(runs') \in {Len(rs), Len(rs) + 1}
      /\ OldRunsAreCancelled' /\ CancelledReadsNothing'
      /\ ActiveRunIsAskedFor' /\ ReadingIsHeld'
  BY <1>1, <1>2, <1>3, EffectKeepsRuns
<1>5. Len(runs) \in Nat /\ Len(runs) < EFFECTS
  BY LenProperties DEF SessionChanges, TicketInv, TicketTypeOK
<1>6. Len(runs') \in Nat /\ Len(runs') <= EFFECTS + 1 /\ 0 \in 0..Len(runs')
  BY <1>1, <1>4, <1>5, TicketAssumption
<1>7. hook' \in HookType(Len(runs'))
  BY <1>6, HookTyped DEF SessionChanges, HookType
<1>8. TicketTypeOK'
  BY <1>4, <1>6, <1>7 DEF SessionChanges, TicketInv, TicketTypeOK, HookType
<1> QED
  BY <1>4, <1>8 DEF TicketInv

LEMMA UnmountKeeps == ASSUME TicketInv, UnmountStream PROVE TicketInv'
<1>1. runs' = CleanedUp(runs)
  BY DEF UnmountStream
<1>2. runs' \in Seq(Closure) /\ Len(runs') = Len(runs)
  BY <1>1, CleanedUpRuns DEF TicketInv
<1>3. \A i \in DOMAIN runs' : runs'[i].cancelled /\ runs'[i].stage \in {"ticket", "gone"}
  BY <1>1, CleanupLeavesNothing
<1>4. 0 \in 0..Len(runs')
  BY <1>2, HookTyped
<1>5. hook' \in HookType(Len(runs'))
  BY <1>4, HookTyped DEF UnmountStream, HookType
<1>6. TicketTypeOK'
  BY <1>2, <1>5 DEF UnmountStream, TicketInv, TicketTypeOK, HookType
<1> QED
  BY <1>3, <1>6 DEF TicketInv, OldRunsAreCancelled, CancelledReadsNothing,
     ActiveRunIsAskedFor, ReadingIsHeld, Reading

\* close() ends the source of the ref, which is the only one that reads.
LEMMA CloseKeeps == ASSUME TicketInv, CloseStream PROVE TicketInv'
<1>1. TicketTypeOK /\ Len(runs) \in Nat /\ DOMAIN runs = 1..Len(runs)
  BY LenProperties DEF TicketInv, TicketTypeOK
<1>2. CASE hook.source = 0
  <2>1. runs' = runs
    BY <1>2 DEF CloseStream, CloseRef
  <2>2. Reading = {}
    BY <1>1, <1>2 DEF TicketInv, ReadingIsHeld, Reading
  <2>3. hook' \in HookType(Len(runs'))
    <3>1. 0 \in 0..Len(runs')
      BY <1>1, <2>1
    <3> QED
      BY <3>1, HookTyped DEF CloseStream, HookType
  <2>4. Reading' = {}
    BY <2>1, <2>2 DEF Reading
  <2>5. hook'.mounted = hook.mounted /\ hook'.session = hook.session
    BY HookTyped DEF CloseStream, HookType
  <2>6. ActiveRunIsAskedFor'
    BY <2>1, <2>5 DEF TicketInv, ActiveRunIsAskedFor
  <2>7. TicketTypeOK'
    BY <1>1, <2>1, <2>3 DEF CloseStream, TicketTypeOK, HookType
  <2> QED
    BY <2>1, <2>4, <2>6, <2>7 DEF TicketInv, OldRunsAreCancelled, CancelledReadsNothing,
       ReadingIsHeld
<1>3. CASE hook.source # 0
  <2> DEFINE k == hook.source
  <2>1. k \in DOMAIN runs
    BY <1>1, <1>3, HookTyped DEF HookType
  <2>2. runs' = [runs EXCEPT ![k].stage = "gone"]
    BY <1>3 DEF CloseStream, CloseRef
  <2>3. "gone" \in RunStages /\ runs[k] \in Closure
    BY <1>1, <2>1, ElementOfSeq DEF RunStages, TicketTypeOK
  <2> HIDE DEF k
  <2>4. /\ runs' \in Seq(Closure) /\ Len(runs') = Len(runs) /\ DOMAIN runs' = DOMAIN runs
        /\ \A j \in DOMAIN runs : j # k => runs'[j] = runs[j]
        /\ runs'[k] = [runs[k] EXCEPT !.stage = "gone"]
    BY <1>1, <2>1, <2>2, <2>3, RunChanged
  <2>5. hook'.mounted = hook.mounted /\ hook'.session = hook.session
    BY HookTyped DEF CloseStream, HookType
  <2>6. /\ runs'[k].stage = "gone" /\ runs'[k].cancelled = runs[k].cancelled
        /\ runs'[k].session = runs[k].session
    BY <2>3, <2>4 DEF Closure
  <2>7. 0 \in 0..Len(runs')
    BY <1>1, <2>4
  <2>8. hook' \in HookType(Len(runs'))
    BY <2>7, HookTyped DEF CloseStream, HookType
  <2>9. TicketTypeOK'
    BY <1>1, <2>4, <2>8 DEF CloseStream, TicketTypeOK, HookType
  <2>10. OldRunsAreCancelled' /\ CancelledReadsNothing' /\ ActiveRunIsAskedFor'
    <3>1. OldRunsAreCancelled'
      BY <2>4, <2>6 DEF TicketInv, OldRunsAreCancelled
    <3>2. CancelledReadsNothing'
      BY <2>4, <2>6 DEF TicketInv, CancelledReadsNothing
    <3>3. ActiveRunIsAskedFor'
      <4> SUFFICES ASSUME NEW j \in DOMAIN runs', ~runs'[j].cancelled
                   PROVE  hook'.mounted /\ runs'[j].session = hook'.session
        BY DEF ActiveRunIsAskedFor
      <4>1. /\ j \in DOMAIN runs /\ ~runs[j].cancelled
            /\ runs'[j].session = runs[j].session
        BY <2>4, <2>6
      <4> QED
        BY <2>5, <4>1 DEF TicketInv, ActiveRunIsAskedFor
    <3> QED
      BY <3>1, <3>2, <3>3
  <2>11. Reading' = {}
    <3> SUFFICES ASSUME NEW j \in DOMAIN runs', runs'[j].stage \in {"open", "live"}
                 PROVE  FALSE
      BY DEF Reading
    <3>1. j # k
      BY <2>6
    <3>2. j \in Reading
      BY <2>4, <3>1 DEF Reading
    <3> QED
      BY <3>1, <3>2 DEF TicketInv, ReadingIsHeld, k
  <2> QED
    BY <2>9, <2>10, <2>11 DEF TicketInv, ReadingIsHeld
<1> QED
  BY <1>2, <1>3

\* A closure moves on to a stage in which it does not read, or in which the hook holds it.
LEMMA RunMovesKeeps ==
  ASSUME TicketInv, NEW i \in DOMAIN runs, NEW st \in RunStages,
         runs' = [runs EXCEPT ![i].stage = st], UNCHANGED events,
         hook' \in HookType(Len(runs)),
         hook'.mounted = hook.mounted, hook'.session = hook.session,
         hook'.closed = hook.closed,
         \A j \in Reading : j # i => hook'.source = j,
         st \in {"open", "live"} => hook'.source = i /\ ~hook.closed /\ ~runs[i].cancelled
  PROVE  TicketInv'
<1>1. TicketTypeOK /\ Len(runs) \in Nat /\ DOMAIN runs = 1..Len(runs)
  BY LenProperties DEF TicketInv, TicketTypeOK
<1>2. runs[i] \in Closure
  BY <1>1, ElementOfSeq DEF TicketTypeOK
<1>3. /\ runs' \in Seq(Closure) /\ Len(runs') = Len(runs) /\ DOMAIN runs' = DOMAIN runs
      /\ \A j \in DOMAIN runs : j # i => runs'[j] = runs[j]
      /\ runs'[i] = [runs[i] EXCEPT !.stage = st]
  BY <1>1, RunChanged
<1>4. /\ runs'[i].stage = st /\ runs'[i].cancelled = runs[i].cancelled
      /\ runs'[i].session = runs[i].session
  BY <1>2, <1>3 DEF Closure
<1>5. TicketTypeOK'
  BY <1>1, <1>3 DEF TicketTypeOK, HookType
<1>6. OldRunsAreCancelled' /\ ActiveRunIsAskedFor'
  BY <1>3, <1>4 DEF TicketInv, OldRunsAreCancelled, ActiveRunIsAskedFor
<1>7. CancelledReadsNothing'
  BY <1>3, <1>4 DEF TicketInv, CancelledReadsNothing, RunStages
<1>8. ReadingIsHeld'
  BY <1>3, <1>4 DEF TicketInv, ReadingIsHeld, Reading
<1> QED
  BY <1>5, <1>6, <1>7, <1>8 DEF TicketInv

LEMMA TicketArrivesKeeps ==
  ASSUME TicketInv, NEW i \in DOMAIN runs, TicketArrives(i)
  PROVE  TicketInv'
<1>1. TicketTypeOK /\ Len(runs) \in Nat /\ DOMAIN runs = 1..Len(runs)
  BY LenProperties DEF TicketInv, TicketTypeOK
<1>2. UNCHANGED events /\ runs[i].stage = "ticket" /\ "open" \in RunStages
      /\ "gone" \in RunStages /\ i \notin Reading
  BY DEF TicketArrives, RunStages, Reading
<1>3. CASE GivesUp(i)
  <2>1. runs' = [runs EXCEPT ![i].stage = "gone"] /\ hook' = hook
    BY <1>3 DEF TicketArrives
  <2>2. \A j \in Reading : j # i => hook'.source = j
    BY <2>1 DEF TicketInv, ReadingIsHeld
  <2> QED
    BY <1>2, <2>1, <2>2, HookTyped, RunMovesKeeps
<1>4. CASE ~GivesUp(i)
  <2>1. runs' = [runs EXCEPT ![i].stage = "open"]
        /\ hook' = [hook EXCEPT !.source = i, !.status = "connecting"]
    BY <1>4 DEF TicketArrives
  <2>2. ~runs[i].cancelled /\ ~hook.closed
    BY <1>4 DEF GivesUp
  <2>3. i = Len(runs)
    BY <1>1, <2>2 DEF TicketInv, OldRunsAreCancelled
  <2>4. Reading = {}
    BY <1>1, <1>2, <2>3
       DEF Reading, TicketInv, OldRunsAreCancelled, CancelledReadsNothing
  <2>5. /\ hook' \in HookType(Len(runs)) /\ hook'.source = i
        /\ hook'.mounted = hook.mounted /\ hook'.session = hook.session
        /\ hook'.closed = hook.closed
    <3>1. i \in 0..Len(runs)
      BY <1>1
    <3>2. hook \in HookType(Len(runs))
      BY HookTyped
    <3> QED
      BY <2>1, <3>1, <3>2 DEF HookType
  <2> QED
    BY <1>2, <2>1, <2>2, <2>4, <2>5, RunMovesKeeps
<1> QED
  BY <1>3, <1>4

\* Only the status of the hook is told of what the ticket service and the stream answer.
LEMMA StatusMovesKeeps ==
  ASSUME TicketInv, NEW i \in DOMAIN runs, NEW st \in RunStages,
         NEW said \in {"idle", "authenticating", "connecting", "open", "closed", "error"},
         runs' = [runs EXCEPT ![i].stage = st], UNCHANGED events,
         hook' = [hook EXCEPT !.status = said],
         st \in {"open", "live"} => i \in Reading
  PROVE  TicketInv'
<1>1. /\ hook' \in HookType(Len(runs)) /\ hook'.source = hook.source
      /\ hook'.mounted = hook.mounted /\ hook'.session = hook.session
      /\ hook'.closed = hook.closed
  BY HookTyped DEF HookType
<1>2. \A j \in Reading : hook'.source = j /\ ~hook.closed /\ ~runs[j].cancelled
  BY <1>1 DEF TicketInv, ReadingIsHeld, CancelledReadsNothing, Reading
<1> QED
  BY <1>1, <1>2, RunMovesKeeps

LEMMA AnswersKeep ==
  ASSUME TicketInv, NEW i \in DOMAIN runs,
         TicketFails(i) \/ StreamAnswers(i) \/ StreamEvent(i) \/ StreamError(i)
  PROVE  TicketInv'
<1>1. CASE TicketFails(i)
  <2> DEFINE said == IF runs[i].cancelled THEN hook.status ELSE "error"
  <2>1. hook' = [hook EXCEPT !.status = said]
    BY <1>1 DEF TicketFails
  <2>2. said \in {"idle", "authenticating", "connecting", "open", "closed", "error"}
    BY HookTyped DEF HookType
  <2> HIDE DEF said
  <2> QED
    BY <1>1, <2>1, <2>2, StatusMovesKeeps DEF TicketFails, RunStages
<1>2. CASE StreamAnswers(i)
  BY <1>2, StatusMovesKeeps DEF StreamAnswers, Reading, RunStages
<1>3. CASE StreamError(i)
  BY <1>3, StatusMovesKeeps DEF StreamError, RunStages
<1>4. CASE StreamEvent(i)
  <2>1. runs \in Seq(Closure) /\ i \in 1..Len(runs)
    BY LenProperties DEF TicketInv, TicketTypeOK
  <2>2. runs[i] \in Closure
    BY <2>1, ElementOfSeq
  <2> QED
    BY <1>4, <2>2 DEF Closure, StreamEvent, TicketInv, TicketTypeOK, OldRunsAreCancelled,
       CancelledReadsNothing, ActiveRunIsAskedFor, ReadingIsHeld, Reading
<1> QED
  BY <1>1, <1>2, <1>3, <1>4

LEMMA TicketNextKeeps == TicketInv /\ [TicketNext]_ticketVars => TicketInv'
<1> SUFFICES ASSUME TicketInv, [TicketNext]_ticketVars PROVE TicketInv'
  OBVIOUS
<1>1. ASSUME NEW s \in Sessions \union {NoSession}, MountStream(s) \/ SessionChanges(s)
      PROVE  TicketInv'
  BY <1>1, MountKeeps, SessionChangesKeeps
<1>2. CASE UnmountStream
  BY <1>2, UnmountKeeps
<1>3. CASE CloseStream
  BY <1>3, CloseKeeps
<1>4. ASSUME NEW i \in DOMAIN runs,
             \/ TicketArrives(i) \/ TicketFails(i) \/ StreamAnswers(i)
             \/ StreamEvent(i) \/ StreamError(i)
      PROVE  TicketInv'
  BY <1>4, TicketArrivesKeeps, AnswersKeep
<1>5. CASE UNCHANGED ticketVars
  BY <1>5 DEF ticketVars, TicketInv, TicketTypeOK, OldRunsAreCancelled,
     CancelledReadsNothing, ActiveRunIsAskedFor, ReadingIsHeld, Reading
<1> QED
  BY <1>1, <1>2, <1>3, <1>4, <1>5 DEF TicketNext

----------------------------------------------------------------------------
(* The theorems.                                                           *)

\* The invariant of the closures holds in every state (useBuilderStream's effect).
THEOREM TicketInvariant == TicketSpec => []TicketInv
BY TicketInitInv, TicketNextKeeps, PTL DEF TicketSpec

\* The refs, the closures and the status of the hook keep their types.
THEOREM TicketTypes == TicketSpec => []TicketTypeOK
<1>1. TicketInv => TicketTypeOK
  BY DEF TicketInv
<1> QED
  BY <1>1, TicketInvariant, PTL

\* However many sessions the parent passes and in whatever order their tickets come, one
\* stream at most is read, the one asked for last, and the hook can close it.
THEOREM OneStreamIsHeld == TicketSpec => []StreamIsHeld
<1>1. TicketInv => StreamIsHeld
  <2> SUFFICES ASSUME TicketInv, NEW i \in Reading
               PROVE  /\ i = Len(runs) /\ hook.mounted /\ ~hook.closed
                      /\ runs[i].session = hook.session /\ hook.source = i
    BY DEF StreamIsHeld, OneStreamRead, OpenSourceIsHeld
  <2>1. i \in DOMAIN runs /\ DOMAIN runs = 1..Len(runs) /\ Len(runs) \in Nat
    BY LenProperties DEF Reading, TicketInv, TicketTypeOK
  <2>2. ~runs[i].cancelled
    BY <2>1 DEF Reading, TicketInv, CancelledReadsNothing
  <2>3. i = Len(runs)
    BY <2>1, <2>2 DEF TicketInv, OldRunsAreCancelled
  <2> QED
    BY <2>1, <2>2, <2>3 DEF TicketInv, ActiveRunIsAskedFor, ReadingIsHeld
<1> QED
  BY <1>1, TicketInvariant, PTL

(***************************************************************************)
(* Executor, for any number of retries, reconnections and frames: a step   *)
(* that execute() reports as over is over once, on the bus, on the bill    *)
(* and at the provider.  The invariant that carries it ties the three      *)
(* together: the frames counted are those up to the last event id, and the *)
(* phase tells what the session and the bus may still be.                  *)
(***************************************************************************)

Phases == {"start", "answering", "spawning", "draining", "pulling", "terminating", "done", "thrown"}

SessionType == [run : {"none", "running", "deleted"} \cup Ends, frames : Nat,
                orphans : Nat, lostDelete : BOOLEAN]
TrackerType == [counted : [1..FRAMES -> Nat], terminal : {"none", "lost", "closed"} \cup Ends]
BridgeType == [attempt : Nat, open : BOOLEAN, pos : Nat, last : Nat]

ExecutorTypeOK ==
  /\ phase \in Phases
  /\ bridge \in BridgeType
  /\ session \in SessionType
  /\ tracker \in TrackerType
  /\ bus \in [started : Nat, tools : Nat, completed : Nat, failed : Nat]

\* The bus has one start, unless that publish was rejected, and no end before execute() returns.
BusFollowsPhase ==
  /\ phase = "start" => bus.started = 0
  /\ phase \notin {"start", "thrown"} => bus.started = 1
  /\ phase # "done" => bus.completed = 0 /\ bus.failed = 0 /\ output = "none"
  /\ phase = "done" => \/ bus.completed = 1 /\ bus.failed = 0 /\ output = "success"
                       \/ bus.completed = 0 /\ bus.failed = 1 /\ output # "success"

\* The frames counted are those up to the last event id, where every reading resumes.
CountedUpToLast ==
  /\ bridge.pos = bridge.last /\ bridge.last <= session.frames /\ session.frames <= FRAMES
  /\ \A i \in 1..FRAMES : tracker.counted[i] = IF i <= bridge.last THEN 1 ELSE 0

\* What the phase tells of the session: none before the spawn, no end told before the stream
\* is over, and an end told is the session's own, after its last frame.
EndsFollowPhase ==
  /\ phase \in {"start", "answering", "spawning"} => session.run = "none"
  /\ phase \in {"start", "answering", "spawning", "draining"} => tracker.terminal = "none"
  /\ phase = "pulling" => tracker.terminal \in {"completed", "closed"}
  /\ tracker.terminal \in Ends => session.run \in Ends /\ bridge.last = session.frames

ExecutorInv ==
  /\ ExecutorTypeOK /\ BusFollowsPhase /\ CountedUpToLast /\ EndsFollowPhase /\ SessionsAreEnded

LEMMA ExecutorInitInv == ExecutorInit => ExecutorInv
BY ExecutorAssumption
   DEF ExecutorInit, ExecutorInv, ExecutorTypeOK, SessionType, TrackerType, BridgeType,
       BusFollowsPhase, CountedUpToLast, EndsFollowPhase, SessionsAreEnded, Over, Phases, Ends, Running

----------------------------------------------------------------------------
(* The steps of the client before the stream.                              *)

\* Returning publishes one last event, a good one when the status is success; a step that
\* throws publishes none.
LEMMA FinishTypes ==
  ASSUME ExecutorInv, phase \notin {"start", "done", "thrown"}, NEW status, Finish(status)
  PROVE  /\ bus' \in [started : Nat, tools : Nat, completed : Nat, failed : Nat]
         /\ BusFollowsPhase' /\ phase' \in {"done", "thrown"}
<1> DEFINE Bus == [started : Nat, tools : Nat, completed : Nat, failed : Nat]
<1>1. bus \in Bus /\ bus.completed = 0 /\ bus.failed = 0
      /\ (phase # "thrown" => bus.started = 1) /\ output = "none"
  BY DEF ExecutorInv, ExecutorTypeOK, BusFollowsPhase
<1>2. CASE Throw
  <2>1. phase' = "thrown" /\ bus' = bus /\ output' = output
    BY <1>2 DEF Throw
  <2> QED
    BY <1>1, <2>1 DEF BusFollowsPhase
<1>3. CASE ~Throw
  <2>0. /\ phase' = "done" /\ output' = status
        /\ bus' = IF status = "success" THEN [bus EXCEPT !.completed = @ + 1]
                                        ELSE [bus EXCEPT !.failed = @ + 1]
    BY <1>3 DEF Finish
  <2>1. CASE status = "success"
    <3>1. bus' \in Bus /\ bus'.completed = 1 /\ bus'.failed = 0 /\ bus'.started = bus.started
      BY <1>1, <2>0, <2>1
    <3> QED
      BY <1>1, <2>0, <2>1, <3>1 DEF BusFollowsPhase
  <2>2. CASE status # "success"
    <3>1. bus' \in Bus /\ bus'.completed = 0 /\ bus'.failed = 1 /\ bus'.started = bus.started
      BY <1>1, <2>0, <2>2
    <3> QED
      BY <1>1, <2>0, <2>2, <3>1 DEF BusFollowsPhase
  <2> QED
    BY <2>1, <2>2
<1> QED
  BY <1>2, <1>3

\* A step that returns before there is a session.
LEMMA EarlyFinishKeeps ==
  ASSUME ExecutorInv, phase \in {"answering", "spawning"}, NEW status, Finish(status),
         NEW made \in Nat, session' = [session EXCEPT !.orphans = @ + made],
         UNCHANGED <<bridge, tracker>>
  PROVE  ExecutorInv'
<1>1. phase \notin {"start", "done", "thrown"} /\ session \in SessionType /\ ExecutorTypeOK
  BY DEF ExecutorInv, ExecutorTypeOK
<1>2. session' \in SessionType /\ session'.run = session.run
      /\ session'.frames = session.frames
  BY <1>1 DEF SessionType
<1>3. phase' \in {"done", "thrown"} /\ BusFollowsPhase'
      /\ bus' \in [started : Nat, tools : Nat, completed : Nat, failed : Nat]
  BY <1>1, FinishTypes
<1>4. ExecutorTypeOK'
  BY <1>1, <1>2, <1>3 DEF ExecutorTypeOK, Phases
<1>5. CountedUpToLast'
  BY <1>2 DEF ExecutorInv, CountedUpToLast
<1>6. EndsFollowPhase' /\ SessionsAreEnded'
  BY <1>2, <1>3 DEF ExecutorInv, EndsFollowPhase, SessionsAreEnded, Over, Running, Ends
<1> QED
  BY <1>3, <1>4, <1>5, <1>6 DEF ExecutorInv

\* A spawn that is tried again.
LEMMA SpawnRetriedKeeps ==
  ASSUME ExecutorInv, NEW made \in 0..1, session' = [session EXCEPT !.orphans = @ + made],
         UNCHANGED <<phase, bridge, tracker, bus, output>>
  PROVE  ExecutorInv'
<1>1. ExecutorTypeOK'
  BY DEF ExecutorInv, ExecutorTypeOK, SessionType
<1>2. session'.run = session.run /\ session'.frames = session.frames
      /\ session'.lostDelete = session.lostDelete
  BY DEF ExecutorInv, ExecutorTypeOK, SessionType
<1> QED
  BY <1>1, <1>2 DEF ExecutorInv, BusFollowsPhase, CountedUpToLast, EndsFollowPhase,
     SessionsAreEnded, Over, Running

LEMMA SpawningKeeps ==
  ASSUME ExecutorInv,
         \/ Execute \/ StubAnswers \/ Spawned \/ SpawnRefused \/ SpawnMalformed
         \/ \E made \in 0..1 : SpawnFails(made)
  PROVE  ExecutorInv'
<1>1. CASE Execute
  <2>1. /\ phase = "start" /\ phase' \in {"spawning", "answering", "thrown"}
        /\ UNCHANGED <<bridge, session, tracker, output>>
        /\ (bus' = bus /\ phase' = "thrown") \/ (bus' = [bus EXCEPT !.started = @ + 1] /\ phase' # "thrown")
    BY <1>1 DEF Execute, Throw
  <2>2. BusFollowsPhase' /\ ExecutorTypeOK'
    BY <2>1 DEF ExecutorInv, ExecutorTypeOK, BusFollowsPhase, Phases
  <2> QED
    BY <2>1, <2>2 DEF ExecutorInv, CountedUpToLast, EndsFollowPhase, SessionsAreEnded, Over, Running
<1>2. session = [session EXCEPT !.orphans = @ + 0]
  BY DEF ExecutorInv, ExecutorTypeOK, SessionType
<1>3. CASE StubAnswers
  <2>1. PICK status : Finish(status)
    BY <1>3 DEF StubAnswers
  <2> QED
    BY <1>2, <1>3, <2>1, EarlyFinishKeeps DEF StubAnswers
<1>4. CASE Spawned
  <2>1. phase = "spawning" /\ phase' = "draining"
        /\ session' = [session EXCEPT !.run = "running"] /\ UNCHANGED <<bridge, tracker, bus, output>>
    BY <1>4 DEF Spawned
  <2>2. session'.frames = session.frames
    BY <2>1 DEF ExecutorInv, ExecutorTypeOK, SessionType
  <2>3. ExecutorTypeOK'
    BY <2>1 DEF ExecutorInv, ExecutorTypeOK, SessionType, Phases
  <2> QED
    BY <2>1, <2>2, <2>3 DEF ExecutorInv, BusFollowsPhase, CountedUpToLast, EndsFollowPhase,
       SessionsAreEnded, Over, Ends
<1>5. CASE SpawnRefused
  BY <1>2, <1>5, EarlyFinishKeeps DEF SpawnRefused
<1>6. CASE SpawnMalformed
  BY <1>6, EarlyFinishKeeps DEF SpawnMalformed
<1>7. ASSUME NEW made \in 0..1, SpawnFails(made)
      PROVE  ExecutorInv'
  <2>1. CASE tries < RETRIES
    BY <1>7, <2>1, SpawnRetriedKeeps DEF SpawnFails
  <2>2. CASE ~(tries < RETRIES)
    BY <1>7, <2>2, EarlyFinishKeeps DEF SpawnFails
  <2> QED
    BY <2>1, <2>2
<1> QED
  BY <1>1, <1>3, <1>4, <1>5, <1>6, <1>7

----------------------------------------------------------------------------
(* The provider, the stream, and the end.                                  *)

LEMMA ProviderKeeps ==
  ASSUME ExecutorInv, ProduceFrame \/ SessionEnds
  PROVE  ExecutorInv'
<1>1. UNCHANGED <<phase, bridge, tracker, bus, output>> /\ session.run = "running"
  BY DEF ProduceFrame, SessionEnds, Running
<1>2. tracker.terminal \notin Ends
  BY <1>1 DEF ExecutorInv, EndsFollowPhase, Ends
<1>3. CASE ProduceFrame
  <2>1. /\ session' \in SessionType
        /\ session'.run = session.run /\ session'.lostDelete = session.lostDelete
        /\ session'.frames = session.frames + 1 /\ session'.frames <= FRAMES
    BY <1>3, ExecutorAssumption DEF ProduceFrame, ExecutorInv, ExecutorTypeOK, SessionType
  <2>2. bridge \in BridgeType /\ session \in SessionType
    BY DEF ExecutorInv, ExecutorTypeOK
  <2>3. bridge.last \in Nat /\ session.frames \in Nat
    BY <2>2 DEF BridgeType, SessionType
  <2>4. CountedUpToLast'
    BY <1>1, <2>1, <2>3 DEF ExecutorInv, CountedUpToLast
  <2> QED
    BY <1>1, <1>2, <2>1, <2>4 DEF ExecutorInv, ExecutorTypeOK, BusFollowsPhase,
       EndsFollowPhase, SessionsAreEnded, Over, Running
<1>4. CASE SessionEnds
  <2>1. /\ session' \in SessionType
        /\ session'.run \in Ends /\ session'.frames = session.frames
    BY <1>4 DEF SessionEnds, ExecutorInv, ExecutorTypeOK, SessionType
  <2> QED
    BY <1>1, <1>2, <2>1 DEF ExecutorInv, ExecutorTypeOK, BusFollowsPhase, CountedUpToLast,
       EndsFollowPhase, SessionsAreEnded, Over, Running, Ends
<1> QED
  BY <1>3, <1>4

\* The stream is over for the bridge, with the tracker and the bridge as they then are.
LEMMA StreamOverKeeps ==
  ASSUME ExecutorInv, phase = "draining", UNCHANGED <<session, bus, output>>,
         NEW kind \in {"lost", "closed"} \cup Ends,
         kind \in Ends => session.run \in Ends /\ bridge'.last = session.frames,
         bridge' \in BridgeType,
         tracker' \in TrackerType,
         CountedUpToLast',
         \/ tracker'.terminal = "none" /\ phase' = "draining"
         \/ /\ tracker'.terminal = kind
            /\ phase' = IF kind \in {"completed", "closed"} THEN "pulling" ELSE "terminating"
  PROVE  ExecutorInv'
<1>1. ExecutorTypeOK'
  BY DEF ExecutorInv, ExecutorTypeOK, Phases
<1>2. BusFollowsPhase'
  BY DEF ExecutorInv, BusFollowsPhase
<1>3. EndsFollowPhase'
  BY DEF ExecutorInv, EndsFollowPhase, Ends
<1>4. SessionsAreEnded'
  BY DEF SessionsAreEnded, Over
<1> QED
  BY <1>1, <1>2, <1>3, <1>4 DEF ExecutorInv

\* A drop of the connection, after what b and t say of the frames read and counted.
LEMMA ReconnectKeeps ==
  ASSUME ExecutorInv, phase = "draining", UNCHANGED <<session, bus, output>>,
         NEW b \in BridgeType,
         NEW t \in TrackerType,
         b.pos = b.last, b.last <= session.frames, t.terminal = "none",
         \A i \in 1..FRAMES : t.counted[i] = IF i <= b.last THEN 1 ELSE 0,
         Reconnect(b, t)
  PROVE  ExecutorInv'
<1>1. session.frames <= FRAMES
  BY DEF ExecutorInv, CountedUpToLast
<1>2. CASE b.attempt < RECONNECTS
  <2>1. bridge' = [b EXCEPT !.open = FALSE, !.attempt = @ + 1] /\ tracker' = t
        /\ phase' = "draining"
    BY <1>2 DEF Reconnect
  <2>2. /\ bridge' \in BridgeType /\ bridge'.pos = b.pos /\ bridge'.last = b.last
        /\ tracker' \in TrackerType /\ tracker'.counted = t.counted
    <3>1. b.attempt \in Nat /\ b.attempt + 1 \in Nat
      BY DEF BridgeType
    <3>2. bridge' \in BridgeType /\ bridge'.pos = b.pos /\ bridge'.last = b.last
      BY <2>1, <3>1 DEF BridgeType
    <3> QED
      BY <2>1, <3>2
  <2>3. CountedUpToLast'
    BY <1>1, <2>2 DEF CountedUpToLast
  <2> QED
    BY <2>1, <2>2, <2>3, StreamOverKeeps DEF TrackerType, Ends
<1>3. CASE ~(b.attempt < RECONNECTS)
  <2>1. bridge' = [b EXCEPT !.open = FALSE] /\ tracker' = [t EXCEPT !.terminal = "lost"]
        /\ phase' = "terminating"
    BY <1>3 DEF Reconnect
  <2>2. /\ bridge' \in BridgeType /\ bridge'.pos = b.pos /\ bridge'.last = b.last
        /\ tracker' \in TrackerType /\ tracker'.counted = t.counted
    BY <2>1 DEF BridgeType, TrackerType
  <2>3. CountedUpToLast'
    BY <1>1, <2>2 DEF CountedUpToLast
  <2> QED
    BY <2>1, <2>2, <2>3, StreamOverKeeps DEF TrackerType, Ends
<1> QED
  BY <1>2, <1>3

\* The next frame is the one after the last counted: it is counted for the first time.
LEMMA FrameCountedOnce ==
  ASSUME ExecutorInv, bridge.pos < session.frames
  PROVE  /\ ReadFrame \in BridgeType
         /\ Ingest \in TrackerType
         /\ ReadFrame.pos = ReadFrame.last /\ ReadFrame.last <= session.frames
         /\ Ingest.terminal = tracker.terminal
         /\ \A i \in 1..FRAMES : Ingest.counted[i] = IF i <= ReadFrame.last THEN 1 ELSE 0
<1> DEFINE n == bridge.pos + 1
           c == [tracker.counted EXCEPT ![n] = @ + 1]
<1>1. /\ bridge \in BridgeType /\ tracker \in TrackerType /\ session \in SessionType
      /\ bridge.pos \in Nat /\ bridge.last \in Nat /\ session.frames \in Nat /\ FRAMES \in Nat
  BY ExecutorAssumption DEF ExecutorInv, ExecutorTypeOK, SessionType, BridgeType
<1>2. bridge.pos = bridge.last /\ session.frames <= FRAMES
  BY DEF ExecutorInv, CountedUpToLast
<1>3. n \in 1..FRAMES /\ n <= session.frames /\ n \in Nat
  BY <1>1, <1>2
<1>4. c \in [1..FRAMES -> Nat]
  BY <1>1, <1>3 DEF TrackerType
<1>5. /\ ReadFrame = [bridge EXCEPT !.pos = n, !.last = n]
      /\ Ingest = [tracker EXCEPT !.counted = c]
  BY DEF ReadFrame, Ingest
<1> HIDE DEF n, c
<1>6. /\ ReadFrame \in BridgeType /\ ReadFrame.pos = n /\ ReadFrame.last = n
      /\ Ingest \in TrackerType /\ Ingest.terminal = tracker.terminal /\ Ingest.counted = c
  BY <1>1, <1>3, <1>4, <1>5 DEF BridgeType, TrackerType
<1>7. \A i \in 1..FRAMES : c[i] = IF i <= n THEN 1 ELSE 0
  <2> SUFFICES ASSUME NEW i \in 1..FRAMES
               PROVE  c[i] = IF i <= n THEN 1 ELSE 0
    OBVIOUS
  <2>1. tracker.counted[i] = IF i <= bridge.last THEN 1 ELSE 0
    BY DEF ExecutorInv, CountedUpToLast
  <2>2. CASE i = n
    BY <1>1, <1>2, <2>1, <2>2 DEF c, n, TrackerType
  <2>3. CASE i # n
    BY <1>1, <1>2, <2>1, <2>3 DEF c, n, TrackerType
  <2> QED
    BY <2>2, <2>3
<1> QED
  BY <1>3, <1>6, <1>7

LEMMA DrainingKeeps ==
  ASSUME ExecutorInv,
         \/ StreamOpens \/ StreamRefused \/ StreamDrops \/ StreamCloses
         \/ HandleSessionEvent \/ LastFrame
  PROVE  ExecutorInv'
<1>1. /\ phase = "draining" /\ tracker.terminal = "none"
      /\ bridge \in BridgeType /\ tracker \in TrackerType /\ session \in SessionType
  BY DEF StreamOpens, StreamRefused, StreamDrops, StreamCloses, HandleSessionEvent, LastFrame,
     ExecutorInv, ExecutorTypeOK, EndsFollowPhase
<1>2. ASSUME NEW kind \in {"lost", "closed"} \cup Ends, Terminal(kind),
             UNCHANGED <<bridge, session, bus, output>>,
             kind \in Ends => session.run \in Ends /\ bridge.last = session.frames
      PROVE  ExecutorInv'
  <2>1. tracker' \in TrackerType /\ tracker'.terminal = kind
        /\ tracker'.counted = tracker.counted
    BY <1>1, <1>2 DEF Terminal, TrackerType
  <2>2. CountedUpToLast'
    BY <1>2, <2>1 DEF ExecutorInv, CountedUpToLast
  <2> QED
    BY <1>1, <1>2, <2>1, <2>2, StreamOverKeeps DEF Terminal
<1>3. CASE StreamOpens
  <2>1. /\ bridge' \in BridgeType /\ bridge'.pos = bridge.last /\ bridge'.last = bridge.last
        /\ UNCHANGED <<phase, session, tracker, bus, output>>
    BY <1>1, <1>3 DEF StreamOpens, ResumeAt, BridgeType
  <2>2. CountedUpToLast'
    BY <2>1 DEF ExecutorInv, CountedUpToLast
  <2> QED
    BY <2>1, <2>2 DEF ExecutorInv, ExecutorTypeOK, BusFollowsPhase, EndsFollowPhase,
       SessionsAreEnded, Over, Running
<1>4. CASE StreamRefused
  BY <1>2, <1>4 DEF StreamRefused, Ends
<1>5. CASE StreamCloses
  BY <1>2, <1>5 DEF StreamCloses, Ends
<1>6. CASE LastFrame
  <2>1. session.run \in Ends /\ bridge.last = session.frames
    BY <1>6 DEF LastFrame, ExecutorInv, CountedUpToLast
  <2> QED
    BY <1>2, <1>6, <2>1 DEF LastFrame
<1>7. CASE StreamDrops
  <2>1. /\ bridge.pos = bridge.last /\ bridge.last <= session.frames
        /\ \A i \in 1..FRAMES : tracker.counted[i] = IF i <= bridge.last THEN 1 ELSE 0
    BY DEF ExecutorInv, CountedUpToLast
  <2> QED
    BY <1>1, <1>7, <2>1, ReconnectKeeps DEF StreamDrops, TrackerType
<1>8. CASE HandleSessionEvent
  <2>1. /\ ReadFrame \in BridgeType /\ Ingest \in TrackerType
        /\ ReadFrame.pos = ReadFrame.last /\ ReadFrame.last <= session.frames
        /\ Ingest.terminal = "none"
        /\ \A i \in 1..FRAMES : Ingest.counted[i] = IF i <= ReadFrame.last THEN 1 ELSE 0
    BY <1>1, <1>8, FrameCountedOnce DEF HandleSessionEvent
  <2>2. UNCHANGED <<session, output>>
    BY <1>8 DEF HandleSessionEvent
  <2>3. CASE Reconnect(ReadFrame, Ingest) /\ UNCHANGED bus
    BY <1>1, <2>1, <2>2, <2>3, ReconnectKeeps DEF TrackerType
  <2>4. CASE /\ bridge' = ReadFrame /\ tracker' = Ingest
             /\ bus' = [bus EXCEPT !.tools = @ + 1] /\ UNCHANGED phase
    <3>1. /\ bus' \in [started : Nat, tools : Nat, completed : Nat, failed : Nat]
          /\ bus'.started = bus.started /\ bus'.completed = bus.completed
          /\ bus'.failed = bus.failed
      BY <2>4 DEF ExecutorInv, ExecutorTypeOK
    <3>2. ExecutorTypeOK'
      BY <2>1, <2>2, <2>4, <3>1 DEF ExecutorInv, ExecutorTypeOK
    <3>3. BusFollowsPhase'
      BY <2>2, <2>4, <3>1 DEF ExecutorInv, BusFollowsPhase
    <3>4. CountedUpToLast'
      BY <2>1, <2>2, <2>4 DEF ExecutorInv, CountedUpToLast
    <3>5. EndsFollowPhase' /\ SessionsAreEnded'
      BY <1>1, <2>1, <2>2, <2>4 DEF EndsFollowPhase, SessionsAreEnded, Over, Ends
    <3> QED
      BY <3>2, <3>3, <3>4, <3>5 DEF ExecutorInv
  <2> QED
    BY <1>8, <2>3, <2>4 DEF HandleSessionEvent
<1> QED
  BY <1>3, <1>4, <1>5, <1>6, <1>7, <1>8

LEMMA EndKeeps ==
  ASSUME ExecutorInv,
         Terminate \/ \E s \in {"success", "error"} : PullArtifacts(s)
  PROVE  ExecutorInv'
<1>1. /\ phase \in {"terminating", "pulling"} /\ UNCHANGED <<bridge, tracker>>
      /\ \E status : Finish(status)
  BY DEF Terminate, PullArtifacts
<1>2. /\ bus' \in [started : Nat, tools : Nat, completed : Nat, failed : Nat]
      /\ BusFollowsPhase' /\ phase' \in {"done", "thrown"}
  BY <1>1, FinishTypes
<1>3. session' \in SessionType /\ session'.frames = session.frames
      /\ (session.run # "running" => session'.run = session.run)
      /\ \/ session'.run # "running"
         \/ session'.lostDelete = TRUE
         \/ phase = "pulling" /\ session' = session
  <2>1. session \in SessionType
    BY DEF ExecutorInv, ExecutorTypeOK
  <2>2. CASE PullArtifacts("success") \/ PullArtifacts("error")
    BY <2>1, <2>2 DEF PullArtifacts
  <2>3. CASE Terminate
    <3>1. CASE session.run # "running"
      BY <2>1, <2>3, <3>1 DEF Terminate, Running
    <3>2. CASE session' = [session EXCEPT !.run = "deleted"]
      BY <2>1, <2>3, <3>2 DEF Terminate, SessionType, Running
    <3>3. CASE session' = [session EXCEPT !.lostDelete = TRUE]
      <4>1. session' \in SessionType /\ session'.frames = session.frames
            /\ session'.run = session.run
        BY <2>1, <3>3 DEF SessionType
      <4>2. session'.lostDelete = TRUE
        BY <2>1, <3>3 DEF SessionType
      <4> QED
        BY <4>1, <4>2
    <3> QED
      BY <2>3, <3>1, <3>2, <3>3 DEF Terminate, Running
  <2> QED
    BY <2>2, <2>3
<1>4. ExecutorTypeOK'
  BY <1>1, <1>2, <1>3 DEF ExecutorInv, ExecutorTypeOK, Phases
<1>5. CountedUpToLast'
  BY <1>1, <1>3 DEF ExecutorInv, CountedUpToLast
<1>6. EndsFollowPhase'
  BY <1>1, <1>2, <1>3 DEF ExecutorInv, EndsFollowPhase, Ends
<1>7. SessionsAreEnded'
  BY <1>1, <1>2, <1>3 DEF ExecutorInv, EndsFollowPhase, SessionsAreEnded, Over, Running, Ends
<1> QED
  BY <1>2, <1>4, <1>5, <1>6, <1>7 DEF ExecutorInv

LEMMA ExecutorNextKeeps == ExecutorInv /\ [ExecutorNext]_executorVars => ExecutorInv'
<1> SUFFICES ASSUME ExecutorInv, [ExecutorNext]_executorVars PROVE ExecutorInv'
  OBVIOUS
<1>1. CASE ProduceFrame \/ SessionEnds
  BY <1>1, ProviderKeeps
<1>2. CASE Client
  BY <1>2, SpawningKeeps, DrainingKeeps, EndKeeps DEF Client
<1>3. CASE UNCHANGED executorVars
  BY <1>3 DEF executorVars, ExecutorInv, ExecutorTypeOK, BusFollowsPhase, CountedUpToLast,
     EndsFollowPhase, SessionsAreEnded, Over, Running
<1> QED
  BY <1>1, <1>2, <1>3 DEF ExecutorNext

----------------------------------------------------------------------------
(* The theorems.                                                           *)

\* The invariant that ties the phase, the bus, the session and the count together.
THEOREM ExecutorInvariant == ExecutorSpec => []ExecutorInv
BY ExecutorInitInv, ExecutorNextKeeps, PTL DEF ExecutorSpec

\* Whatever drops, is replayed, refused, retried or lost, and however often: a step that
\* execute() returns from ended once on the bus, one it throws from did not end twice, its
\* usage is counted once, and its session is left running only if the DELETE was lost or the
\* stream closed without a last frame (execute() and its helpers).
THEOREM StepIsSettled == ExecutorSpec => []StepSettled
<1>1. ExecutorInv => StepSettled
  <2> SUFFICES ASSUME ExecutorInv PROVE StepSettled
    OBVIOUS
  <2>1. OneOutcomePerStep
    BY DEF ExecutorInv, BusFollowsPhase, OneOutcomePerStep
  <2>2. UsageCountedOnce
    <3>1. bridge.last \in Nat /\ session.frames \in Nat /\ FRAMES \in Nat
      BY ExecutorAssumption DEF ExecutorInv, ExecutorTypeOK, BridgeType, SessionType
    <3>2. \A i \in 1..FRAMES : tracker.counted[i] <= 1
      BY DEF ExecutorInv, CountedUpToLast
    <3>3. ASSUME tracker.terminal \in Ends, NEW i \in 1..session.frames
          PROVE  tracker.counted[i] = 1
      <4>1. bridge.last = session.frames /\ session.frames <= FRAMES
        BY <3>3 DEF ExecutorInv, EndsFollowPhase, CountedUpToLast
      <4>2. i \in 1..FRAMES /\ i <= bridge.last
        BY <3>1, <4>1
      <4> QED
        BY <4>2 DEF ExecutorInv, CountedUpToLast
    <3> QED
      BY <3>2, <3>3 DEF UsageCountedOnce
  <2> QED
    BY <2>1, <2>2 DEF ExecutorInv, StepSettled
<1> QED
  BY <1>1, ExecutorInvariant, PTL

(***************************************************************************)
(* MaSession, for any requests, keys, bodies and cap.  The unique index    *)
(* gives one session per key by itself.  The cap counts a create that is   *)
(* past its count as it counts a session: the insert then changes nothing, *)
(* and only a count can add to them.  A cancellation needs to know that    *)
(* the session of one that has written is over and stays so.               *)
(***************************************************************************)

Statuses == {"none", "queued"} \union ActiveStates \union TERMINAL
Places == {"new", "gates", "counting", "inserting", "done"}
Replies == {"none", "replayed", "mismatch", "refused", "too_many", "created", "error"}

\* The sessions that are not over, and the creates that will insert one.
Underway == Active \union Queued \union Inserting

SessionTypeOK ==
  /\ creates \in [Creates -> [at : Places, reply : Replies]]
  /\ sessions \in [Creates -> Statuses]
  /\ cancel \in [of : Creates \union {NoIdemKey}, read : Statuses \union {"written"}, begun : Nat]
  /\ flags \subseteq Creates /\ heard \subseteq Creates /\ unseen \in Nat

\* A request is answered when it is done and not before.
AnswersAreLast == \A c \in Creates : creates[c].at # "done" => creates[c].reply = "none"

\* A cancellation under way has a session, and one that has written has ended it.
CancelHasItsSession ==
  /\ cancel.read # "none" => cancel.of \in Creates
  /\ cancel.read = "written" => sessions[cancel.of] \in TERMINAL

SessionInv ==
  SessionTypeOK /\ AnswersAreLast /\ CancelHasItsSession /\ SessionsAccounted

----------------------------------------------------------------------------
(* What a transition of update_session_status does.                        *)

LEMMA LegalMoves ==
  ASSUME NEW from \in Statuses, NEW to \in Statuses, Legal(from, to)
  PROVE  /\ from \in ActiveStates \union {"queued"}
         /\ to \in ActiveStates \union TERMINAL
  BY DEF Legal, Statuses, ActiveStates, TERMINAL

\* The sessions that are not over are finitely many, and a part of them is no larger.
LEMMA UnderwayIsFinite ==
  /\ IsFiniteSet(Underway) /\ Cardinality(Underway) \in Nat
  /\ \A T \in SUBSET Underway : Cardinality(T) \in Nat /\ Cardinality(T) <= Cardinality(Underway)
  <1>1. Underway \subseteq Creates  BY DEF Underway, Active, Queued, Inserting
  <1>2. IsFiniteSet(Underway)  BY <1>1, SessionAssumption, FS_Subset
  <1>3. ASSUME NEW T \in SUBSET Underway
        PROVE  Cardinality(T) \in Nat /\ Cardinality(T) <= Cardinality(Underway)
    BY <1>2, FS_Subset, FS_CardinalityType
  <1> QED BY <1>2, <1>3, FS_CardinalityType

\* A step that is no count and adds nothing to them keeps the bound.
LEMMA CapKept ==
  ASSUME SessionTypeOK, CapButForUnseen, unseen' = unseen, Underway' \subseteq Underway
  PROVE  CapButForUnseen'
  <1>1. /\ Cardinality(Underway') \in Nat /\ Cardinality(Underway) \in Nat
        /\ Cardinality(Underway') <= Cardinality(Underway)
    BY UnderwayIsFinite
  <1>2. Cardinality(Underway) <= MAX_CONCURRENT_PER_USER + unseen
    BY DEF CapButForUnseen, Underway
  <1>3. Cardinality(Underway') <= MAX_CONCURRENT_PER_USER + unseen'
    BY <1>1, <1>2, SessionAssumption DEF SessionTypeOK
  <1> QED BY <1>3 DEF CapButForUnseen, Underway

\* A session that is over stays over, and none disappears.
RowsLast ==
  \A s \in Creates : /\ sessions[s] \in TERMINAL => sessions'[s] = sessions[s]
                     /\ sessions[s] # "none" => sessions'[s] # "none"

----------------------------------------------------------------------------
(* The steps.                                                              *)

LEMMA SessionInitInv == SessionInit => SessionInv
  <1> SUFFICES ASSUME SessionInit PROVE SessionInv  OBVIOUS
  <1> USE DEF SessionInit
  <1>1. SessionTypeOK  BY DEF SessionTypeOK, Places, Replies, Statuses
  <1>2. Rows = {} /\ Underway = {}
    BY DEF Rows, Underway, Active, Queued, Inserting, ActiveStates
  <1>3. Cardinality(Underway) = 0  BY <1>2, FS_EmptySet
  <1>4. AnswersAreLast /\ CancelHasItsSession
    BY <1>2 DEF AnswersAreLast, CancelHasItsSession
  <1>5. OneSessionPerKey  BY <1>2 DEF OneSessionPerKey
  <1>6. CapButForUnseen  BY <1>3, SessionAssumption DEF CapButForUnseen, Underway
  <1>7. CancelIsHeard  BY DEF CancelIsHeard
  <1> QED BY <1>1, <1>4, <1>5, <1>6, <1>7 DEF SessionInv, SessionsAccounted

\* A request that only moves on or is answered without a row.
LEMMA CreateAnswered ==
  ASSUME SessionInv, NEW c \in Creates, creates[c].at # "done",
         \/ \E to \in {"gates", "counting", "inserting"} : Moved(c, to)
         \/ \E answer \in Replies \ {"none", "created"} :
              /\ Answered(c, answer)
              /\ answer = "replayed" => \E s \in SameKey(c) : bodyOf[s] = bodyOf[c],
         UNCHANGED <<bodyOf, sessions, cancel, flags, heard>>, unseen' \in Nat
  PROVE  SessionTypeOK' /\ AnswersAreLast' /\ CancelHasItsSession' /\ OneSessionPerKey'
         /\ CancelIsHeard'
  <1> USE DEF SessionInv, SessionsAccounted
  <1>1. c \notin Rows /\ creates[c].reply = "none"
    BY DEF AnswersAreLast, OneSessionPerKey, Rows
  <1>2. SessionTypeOK'
    BY DEF SessionTypeOK, Places, Replies, Moved, Answered
  <1>3. AnswersAreLast'
    BY <1>1 DEF AnswersAreLast, Moved, Answered, SessionTypeOK
  <1>4. Rows' = Rows /\ \A d \in Creates : SameKey(d)' = SameKey(d)
    BY DEF Rows, SameKey
  <1>5. ASSUME NEW d \in Creates
        PROVE  /\ creates'[d].reply = "created" <=> d \in Rows
               /\ creates'[d].reply = "replayed" => \E s \in SameKey(d) : bodyOf[s] = bodyOf[d]
    <2>1. CASE d # c  BY <2>1 DEF Moved, Answered, OneSessionPerKey, SessionTypeOK
    <2>2. CASE d = c  BY <1>1, <2>2 DEF Moved, Answered, SessionTypeOK
    <2> QED BY <2>1, <2>2
  <1>6. OneSessionPerKey'
    BY <1>4, <1>5 DEF OneSessionPerKey
  <1>7. CancelHasItsSession' /\ CancelIsHeard'
    BY DEF CancelHasItsSession, CancelIsHeard
  <1> QED BY <1>2, <1>3, <1>6, <1>7

LEMMA LookUpKeyKeepsInv ==
  ASSUME SessionInv, NEW c \in Creates, LookUpKey(c)
  PROVE  SessionInv'
  <1> USE DEF SessionInv, SessionsAccounted
  <1>1. SessionTypeOK' /\ AnswersAreLast' /\ CancelHasItsSession' /\ OneSessionPerKey'
        /\ CancelIsHeard'
    <2>1. unseen' \in Nat  BY DEF LookUpKey, SessionTypeOK
    <2>2. creates[c].at # "done"  BY DEF LookUpKey
    <2>3. CASE SameKey(c) = {}
      BY <2>1, <2>2, <2>3, CreateAnswered DEF LookUpKey
    <2>4. CASE SameKey(c) # {}
      <3>1. PICK answer \in {"replayed", "mismatch"} :
              /\ Answered(c, answer)
              /\ answer = "replayed" => \A s \in SameKey(c) : bodyOf[s] = bodyOf[c]
        BY <2>4 DEF LookUpKey
      <3>2. answer \in Replies \ {"none", "created"}  BY DEF Replies
      <3>3. answer = "replayed" => \E s \in SameKey(c) : bodyOf[s] = bodyOf[c]
        BY <2>4, <3>1
      <3>4. UNCHANGED <<bodyOf, sessions, cancel, flags, heard>>  BY DEF LookUpKey
      <3> QED BY <2>1, <2>2, <3>1, <3>2, <3>3, <3>4, CreateAnswered
    <2> QED BY <2>3, <2>4
  <1>2. Underway' \subseteq Underway
    BY DEF LookUpKey, Moved, Answered, Inserting, Underway, Active, Queued, SessionTypeOK
  <1>3. CapButForUnseen'  BY <1>2, CapKept DEF LookUpKey
  <1> QED BY <1>1, <1>3

LEMMA PassGatesKeepsInv ==
  ASSUME SessionInv, NEW c \in Creates, NEW open \in BOOLEAN, PassGates(c, open)
  PROVE  SessionInv'
  <1> USE DEF SessionInv, SessionsAccounted
  <1>1. \/ Moved(c, "counting")
        \/ Answered(c, "refused")
    BY DEF PassGates
  <1>2. SessionTypeOK' /\ AnswersAreLast' /\ CancelHasItsSession' /\ OneSessionPerKey'
        /\ CancelIsHeard'
    <2>1. unseen' \in Nat /\ creates[c].at # "done"  BY DEF PassGates, SessionTypeOK
    <2>2. UNCHANGED <<bodyOf, sessions, cancel, flags, heard>>  BY DEF PassGates
    <2>3. "refused" \in Replies \ {"none", "created"}  BY DEF Replies
    <2> QED BY <1>1, <2>1, <2>2, <2>3, CreateAnswered
  <1>3. Underway' \subseteq Underway
    BY DEF PassGates, Moved, Answered, Inserting, Underway, Active, Queued, SessionTypeOK
  <1>4. CapButForUnseen'  BY <1>3, CapKept DEF PassGates
  <1> QED BY <1>2, <1>4

\* The count: a create goes on to its insert when fewer sessions run than the cap, so that it
\* adds one to them and to what the count does not see.
LEMMA CountActiveKeepsInv ==
  ASSUME SessionInv, NEW c \in Creates, CountActive(c)
  PROVE  SessionInv'
  <1> USE DEF SessionInv, SessionsAccounted
  <1> DEFINE hidden == Queued \union Inserting
  <1>1. \/ Moved(c, "inserting") /\ ~(Cardinality(Active) >= MAX_CONCURRENT_PER_USER)
        \/ Answered(c, "too_many")
    BY DEF CountActive
  <1>2. unseen' = Most(unseen, Cardinality(hidden))  BY DEF CountActive
  <1>3. UNCHANGED <<bodyOf, sessions, cancel, flags, heard>>  BY DEF CountActive
  <1>4. Active \in SUBSET Underway /\ hidden \in SUBSET Underway /\ Underway = Active \union hidden
    BY DEF Underway
  <1>5. /\ IsFiniteSet(Underway) /\ Cardinality(Underway) \in Nat
        /\ Cardinality(Active) \in Nat /\ Cardinality(hidden) \in Nat
    BY <1>4, UnderwayIsFinite
  <1> HIDE DEF hidden
  <1>6. unseen' \in Nat /\ unseen' >= unseen /\ unseen' >= Cardinality(hidden)
    BY <1>2, <1>5 DEF Most, SessionTypeOK
  <1>7. SessionTypeOK' /\ AnswersAreLast' /\ CancelHasItsSession' /\ OneSessionPerKey'
        /\ CancelIsHeard'
    <2>1. creates[c].at # "done"  BY DEF CountActive
    <2>2. "too_many" \in Replies \ {"none", "created"}  BY DEF Replies
    <2> QED BY <1>1, <1>3, <1>6, <2>1, <2>2, CreateAnswered
  <1>8. CASE Answered(c, "too_many")
    <2>1. Underway' \subseteq Underway
      BY <1>3, <1>8 DEF Answered, Underway, Active, Queued, Inserting, SessionTypeOK
    <2>2. Cardinality(Underway') \in Nat /\ Cardinality(Underway') <= Cardinality(Underway)
      BY <2>1, UnderwayIsFinite
    <2>3. Cardinality(Underway) <= MAX_CONCURRENT_PER_USER + unseen
      BY DEF CapButForUnseen, Underway
    <2>4. Cardinality(Underway') <= MAX_CONCURRENT_PER_USER + unseen'
      BY <1>5, <1>6, <2>2, <2>3, SessionAssumption DEF SessionTypeOK
    <2> QED BY <1>7, <2>4 DEF CapButForUnseen, Underway
  <1>9. CASE Moved(c, "inserting") /\ ~(Cardinality(Active) >= MAX_CONCURRENT_PER_USER)
    <2>1. Underway' \subseteq Underway \union {c}
      BY <1>3, <1>9 DEF Moved, Underway, Active, Queued, Inserting, SessionTypeOK
    <2>2. Cardinality(Underway) <= Cardinality(Active) + Cardinality(hidden)
      <3>1. IsFiniteSet(Active) /\ IsFiniteSet(hidden)
        BY <1>4, <1>5, FS_Subset
      <3>2. /\ Cardinality(Active \union hidden)
               = Cardinality(Active) + Cardinality(hidden) - Cardinality(Active \cap hidden)
            /\ Cardinality(Active \cap hidden) \in Nat
        <4>1. IsFiniteSet(Active \cap hidden)
          BY <3>1, FS_Intersection
        <4> QED BY <3>1, <4>1, FS_Union, FS_CardinalityType
      <3> QED BY <1>4, <1>5, <3>2
    <2>3. /\ IsFiniteSet(Underway \union {c})
          /\ Cardinality(Underway \union {c}) <= Cardinality(Underway) + 1
          /\ Cardinality(Underway \union {c}) \in Nat
      <3>1. IsFiniteSet(Underway \union {c})
        BY <1>5, FS_AddElement
      <3>2. Cardinality(Underway \union {c}) = IF c \in Underway THEN Cardinality(Underway)
                                                ELSE Cardinality(Underway) + 1
        BY <1>5, FS_AddElement
      <3>3. Cardinality(Underway \union {c}) \in Nat
        BY <3>1, FS_CardinalityType
      <3> HIDE DEF Underway
      <3> QED BY <1>5, <3>1, <3>2, <3>3
    <2>4. Cardinality(Underway') \in Nat /\ Cardinality(Underway') <= Cardinality(Underway \union {c})
      BY <2>1, <2>3, FS_Subset, FS_CardinalityType
    <2>5. Cardinality(Underway') <= MAX_CONCURRENT_PER_USER + unseen'
      BY <1>5, <1>6, <1>9, <2>2, <2>3, <2>4, SessionAssumption DEF SessionTypeOK
    <2> QED BY <1>7, <2>5 DEF CapButForUnseen, Underway
  <1> QED BY <1>1, <1>8, <1>9

\* The insert: the index refuses a second row of a key; the session takes its create's place.
LEMMA InsertSessionKeepsInv ==
  ASSUME SessionInv, NEW c \in Creates, InsertSession(c)
  PROVE  SessionInv'
  <1> USE DEF SessionInv, SessionsAccounted
  <1>1. creates[c].at = "inserting" /\ creates[c].reply = "none" /\ c \notin Rows
    BY DEF InsertSession, AnswersAreLast, OneSessionPerKey, Rows
  <1>2. UNCHANGED <<bodyOf, cancel, flags, heard, unseen>>  BY DEF InsertSession
  <1>3. c \in Inserting /\ Inserting' \subseteq Inserting
    BY <1>1 DEF InsertSession, Answered, Inserting, SessionTypeOK
  <1>4. CASE SameKey(c) # {}
    <2>1. Answered(c, "error") /\ UNCHANGED sessions  BY <1>4 DEF InsertSession
    <2>2. "error" \in Replies \ {"none", "created"}  BY DEF Replies
    <2>3. SessionTypeOK' /\ AnswersAreLast' /\ CancelHasItsSession' /\ OneSessionPerKey'
          /\ CancelIsHeard'
      BY <1>1, <1>2, <2>1, <2>2, CreateAnswered DEF SessionTypeOK
    <2>4. Underway' \subseteq Underway  BY <1>3, <2>1 DEF Underway, Active, Queued
    <2>5. CapButForUnseen'  BY <1>2, <2>4, CapKept
    <2> QED BY <2>3, <2>5
  <1>5. CASE SameKey(c) = {}
    <2>1. sessions' = [sessions EXCEPT ![c] = "queued"] /\ Answered(c, "created")
      BY <1>5 DEF InsertSession
    <2>2. SessionTypeOK'
      BY <1>2, <2>1 DEF SessionTypeOK, Statuses, Answered, Places, Replies
    <2>3. AnswersAreLast'
      BY <2>1 DEF AnswersAreLast, Answered, SessionTypeOK
    <2>4. Rows' = Rows \union {c}
      BY <2>1 DEF Rows, SessionTypeOK
    <2>5. OneSessionPerKey'
      <3>1. ASSUME NEW s \in Rows', NEW t \in Rows', KeyOf[s] = KeyOf[t], KeyOf[s] # NoIdemKey
            PROVE  s = t
        BY <1>5, <2>4, <3>1 DEF OneSessionPerKey, SameKey
      <3>2. ASSUME NEW d \in Creates
            PROVE  creates'[d].reply = "created" <=> d \in Rows'
        BY <2>1, <2>4 DEF Answered, OneSessionPerKey, SessionTypeOK
      <3>3. ASSUME NEW d \in Creates, creates'[d].reply = "replayed"
            PROVE  \E s \in SameKey(d)' : bodyOf'[s] = bodyOf'[d]
        <4>1. creates[d].reply = "replayed"
          BY <2>1, <3>3 DEF Answered, SessionTypeOK
        <4>2. PICK s \in SameKey(d) : bodyOf[s] = bodyOf[d]
          BY <4>1 DEF OneSessionPerKey
        <4>3. s \in SameKey(d)'  BY <2>4 DEF SameKey
        <4> QED BY <1>2, <4>2, <4>3
      <3> QED BY <3>1, <3>2, <3>3 DEF OneSessionPerKey
    <2>6. sessions[c] = "none"  BY <1>1 DEF Rows
    <2>7. CancelHasItsSession' /\ CancelIsHeard'
      BY <1>2, <2>1, <2>6 DEF CancelHasItsSession, CancelIsHeard, SessionTypeOK, TERMINAL
    <2>8. Underway' \subseteq Underway
      BY <1>3, <2>1, <2>6 DEF Underway, Active, Queued, ActiveStates, SessionTypeOK
    <2>9. CapButForUnseen'  BY <1>2, <2>8, CapKept
    <2> QED BY <2>2, <2>3, <2>5, <2>7, <2>9
  <1> QED BY <1>4, <1>5

\* What the moves of a row disturb: the rows stay rows, what is over stays over and no
\* session is underway that was not.
LEMMA RowMoved ==
  ASSUME SessionInv, NEW s \in Creates, NEW to \in Statuses, Legal(sessions[s], to),
         sessions' = [sessions EXCEPT ![s] = to],
         UNCHANGED <<bodyOf, creates, flags, unseen>>
  PROVE  /\ sessions' \in [Creates -> Statuses] /\ RowsLast
         /\ AnswersAreLast' /\ OneSessionPerKey' /\ CapButForUnseen'
         /\ heard' = heard => CancelIsHeard'
  <1> USE DEF SessionInv, SessionsAccounted
  <1>1. /\ sessions[s] \in ActiveStates \union {"queued"}
        /\ to \in ActiveStates \union TERMINAL
    BY LegalMoves DEF SessionTypeOK
  <1>2. sessions' \in [Creates -> Statuses] /\ RowsLast
    BY <1>1 DEF SessionTypeOK, RowsLast, ActiveStates, TERMINAL
  <1>3. Rows' = Rows
    BY <1>1 DEF Rows, SessionTypeOK, ActiveStates, TERMINAL
  <1>4. \A c \in Creates : SameKey(c)' = SameKey(c)  BY <1>3 DEF SameKey
  <1>5. OneSessionPerKey'  BY <1>3, <1>4 DEF OneSessionPerKey
  <1>6. Underway' \subseteq Underway
    BY <1>1 DEF Underway, Active, Queued, Inserting, ActiveStates, TERMINAL, SessionTypeOK
  <1>7. CapButForUnseen'  BY <1>6, CapKept
  <1>8. heard' = heard => CancelIsHeard'
    BY <1>2 DEF RowsLast, CancelIsHeard, SessionTypeOK
  <1> QED BY <1>2, <1>5, <1>7, <1>8 DEF AnswersAreLast

LEMMA DispatcherMovesKeepsInv ==
  ASSUME SessionInv, NEW s \in Creates, NEW to \in ActiveStates \union TERMINAL,
         DispatcherMoves(s, to)
  PROVE  SessionInv'
  <1> USE DEF SessionInv, SessionsAccounted
  <1>1. to \in Statuses  BY DEF Statuses
  <1>2. /\ sessions' \in [Creates -> Statuses] /\ RowsLast
        /\ AnswersAreLast' /\ OneSessionPerKey' /\ CapButForUnseen'
        /\ CancelIsHeard'
    BY <1>1, RowMoved DEF DispatcherMoves
  <1>3. SessionTypeOK'  BY <1>2 DEF SessionTypeOK, DispatcherMoves
  <1>4. CancelHasItsSession'
    BY <1>2 DEF CancelHasItsSession, RowsLast, DispatcherMoves
  <1> QED BY <1>2, <1>3, <1>4

LEMMA CancelReadsKeepsInv ==
  ASSUME SessionInv, NEW s \in Creates, CancelReads(s)
  PROVE  SessionInv'
  <1> USE DEF SessionInv, SessionsAccounted, CancelReads
  <1>1. cancel' = [of |-> s, read |-> sessions[s], begun |-> cancel.begun + 1]  OBVIOUS
  <1>2. SessionTypeOK'  BY <1>1 DEF SessionTypeOK
  <1>3. sessions[s] # "written"
    BY DEF SessionTypeOK, Statuses, ActiveStates, TERMINAL
  <1>4. CancelHasItsSession'  BY <1>1, <1>3 DEF CancelHasItsSession
  <1>5. OneSessionPerKey' /\ CancelIsHeard' /\ AnswersAreLast'
    BY DEF OneSessionPerKey, CancelIsHeard, AnswersAreLast, Rows, SameKey
  <1>6. CapButForUnseen'
    BY CapKept DEF Inserting, Underway, Active, Queued
  <1> QED BY <1>2, <1>4, <1>5, <1>6

LEMMA CancelWritesKeepsInv ==
  ASSUME SessionInv, CancelWrites
  PROVE  SessionInv'
  <1> USE DEF SessionInv, SessionsAccounted
  <1>1. cancel.read = "queued" /\ cancel.of \in Creates
    BY DEF CancelWrites, CancelHasItsSession
  <1>2. UNCHANGED <<bodyOf, creates, flags, heard, unseen>>  BY DEF CancelWrites
  <1>3. CASE Legal(sessions[cancel.of], "cancelled")
    <2>1. /\ sessions' = [sessions EXCEPT ![cancel.of] = "cancelled"]
          /\ cancel' = [cancel EXCEPT !.read = "written"]
      BY <1>3 DEF CancelWrites
    <2>2. "cancelled" \in Statuses /\ "cancelled" \in TERMINAL  BY DEF Statuses, TERMINAL
    <2>3. /\ sessions' \in [Creates -> Statuses]
          /\ AnswersAreLast' /\ OneSessionPerKey' /\ CapButForUnseen'
          /\ CancelIsHeard'
      BY <1>1, <1>2, <1>3, <2>1, <2>2, RowMoved
    <2>4. SessionTypeOK'  BY <1>2, <2>1, <2>3 DEF SessionTypeOK
    <2>5. CancelHasItsSession'
      BY <1>1, <2>1, <2>2 DEF CancelHasItsSession, SessionTypeOK
    <2> QED BY <2>3, <2>4, <2>5
  <1>4. CASE ~Legal(sessions[cancel.of], "cancelled")
    <2>1. CancelOver /\ UNCHANGED sessions  BY <1>4 DEF CancelWrites
    <2>2. SessionTypeOK'  BY <1>2, <2>1 DEF SessionTypeOK, CancelOver, Statuses
    <2>3. CancelHasItsSession'
      BY <2>1 DEF CancelHasItsSession, CancelOver, SessionTypeOK
    <2>4. OneSessionPerKey' /\ CancelIsHeard' /\ AnswersAreLast'
      BY <1>2, <2>1 DEF OneSessionPerKey, CancelIsHeard, AnswersAreLast, Rows, SameKey
    <2>5. CapButForUnseen'
      BY <1>2, <2>1, CapKept DEF Inserting, Underway, Active, Queued
    <2> QED BY <2>2, <2>3, <2>4, <2>5
  <1> QED BY <1>3, <1>4

\* The answer: the flag is there, or the session is over already.
LEMMA SetCancelFlagKeepsInv ==
  ASSUME SessionInv, NEW up \in BOOLEAN, SetCancelFlag(up)
  PROVE  SessionInv'
  <1> USE DEF SessionInv, SessionsAccounted
  <1>1. cancel.of \in Creates /\ (cancel.read = "written" => sessions[cancel.of] \in TERMINAL)
    BY DEF SetCancelFlag, CancelHasItsSession, ActiveStates
  <1>2. UNCHANGED <<bodyOf, creates, sessions, unseen>> /\ CancelOver  BY DEF SetCancelFlag
  <1>3. /\ flags' = (IF up THEN flags \union {cancel.of} ELSE flags)
        /\ heard' = (IF up \/ cancel.read = "written" THEN heard \union {cancel.of} ELSE heard)
    BY DEF SetCancelFlag
  <1>4. SessionTypeOK'
    BY <1>1, <1>2, <1>3 DEF SessionTypeOK, CancelOver, Statuses
  <1>5. CancelHasItsSession'  BY <1>2 DEF CancelHasItsSession, CancelOver, SessionTypeOK
  <1>6. CancelIsHeard'  BY <1>1, <1>2, <1>3 DEF CancelIsHeard
  <1>7. OneSessionPerKey' /\ AnswersAreLast'
    BY <1>2 DEF OneSessionPerKey, AnswersAreLast, Rows, SameKey
  <1>8. CapButForUnseen'
    BY <1>2, CapKept DEF Inserting, Underway, Active, Queued
  <1> QED BY <1>4, <1>5, <1>6, <1>7, <1>8

LEMMA SessionStutterKeepsInv ==
  ASSUME SessionInv, UNCHANGED sessionVars
  PROVE  SessionInv'
  BY DEF SessionInv, sessionVars, SessionTypeOK, AnswersAreLast,
         CancelHasItsSession, SessionsAccounted, OneSessionPerKey, CapButForUnseen,
         CancelIsHeard, Rows, SameKey, Inserting, Underway, Active, Queued

----------------------------------------------------------------------------
(* The theorems.                                                           *)

\* The invariant holds in every state of every behaviour.
THEOREM SessionInvariant == SessionSpec => []SessionInv
  <1>1. SessionInit => SessionInv  BY SessionInitInv
  <1>2. SessionInv /\ [SessionNext]_sessionVars => SessionInv'
    <2> SUFFICES ASSUME SessionInv, [SessionNext]_sessionVars PROVE SessionInv'
      OBVIOUS
    <2>1. ASSUME NEW c \in Creates, LookUpKey(c) PROVE SessionInv'
      BY <2>1, LookUpKeyKeepsInv
    <2>2. ASSUME NEW c \in Creates, NEW open \in BOOLEAN, PassGates(c, open) PROVE SessionInv'
      BY <2>2, PassGatesKeepsInv
    <2>3. ASSUME NEW c \in Creates, CountActive(c) PROVE SessionInv'
      BY <2>3, CountActiveKeepsInv
    <2>4. ASSUME NEW c \in Creates, InsertSession(c) PROVE SessionInv'
      BY <2>4, InsertSessionKeepsInv
    <2>5. ASSUME NEW c \in Creates, CancelReads(c) PROVE SessionInv'
      BY <2>5, CancelReadsKeepsInv
    <2>6. ASSUME NEW c \in Creates, NEW to \in ActiveStates \union TERMINAL, DispatcherMoves(c, to)
          PROVE  SessionInv'
      BY <2>6, DispatcherMovesKeepsInv
    <2>7. CASE CancelWrites  BY <2>7, CancelWritesKeepsInv
    <2>8. ASSUME NEW up \in BOOLEAN, SetCancelFlag(up) PROVE SessionInv'
      BY <2>8, SetCancelFlagKeepsInv
    <2>9. CASE UNCHANGED sessionVars  BY <2>9, SessionStutterKeepsInv
    <2> QED BY <2>1, <2>2, <2>3, <2>4, <2>5, <2>6, <2>7, <2>8, <2>9 DEF SessionNext
  <1> QED BY <1>1, <1>2, PTL DEF SessionSpec

\* However many requests there are and whatever their keys, a key has one session, the cap is
\* exceeded by no more than one count could not see and a cancellation is heard
\* (create_session and cancel_session).
THEOREM SessionsAreAccounted == SessionSpec => []SessionsAccounted
  <1>1. SessionInv => SessionsAccounted  BY DEF SessionInv
  <1> QED BY <1>1, SessionInvariant, PTL

(***************************************************************************)
(* The event log of a session and a client that reads it, for any number   *)
(* of events, pages and lost connections.                                  *)
(***************************************************************************)

Kinds == {"delta", "done"}
Stages == {"held", "inserted", "told", "committed", "aborted"}
ConnPlaces == {"off", "gone", "replay", "probe", "subscribing", "tail", "closed"}

\* The frames the client has or that are on their way to it.
Frames == ToSet(seen) \union ToSet(wire) \union ToSet(inbox)

LogTypes ==
  /\ log \in Seq([kind : Kinds, at : Stages])
  /\ conn \in [at : ConnPlaces, cursor : Nat, read : SUBSET Nat]
  /\ seen \in Seq(Nat) /\ wire \in Seq(Nat) /\ inbox \in Seq(Nat)

\* After an event that is not settled there is only the one that waits for it.
OneWriter ==
  /\ \A e, f \in LogEvents : e < f /\ log[e].at \in {"inserted", "told"} => log[f].at = "held"
  /\ \A e \in With({"held"}) : e = Len(log) /\ \E f \in Unsettled : f < e

\* What was sent was published.
FramesWereTold ==
  \A e \in Frames : e \in LogEvents /\ log[e].at \in {"told", "committed", "aborted"}

\* What the client has precedes what is on the wire, and that what waits in the subscription.
FramesAscend ==
  /\ Ascending(seen) /\ Ascending(wire) /\ Ascending(inbox)
  /\ \A e \in ToSet(seen), f \in ToSet(wire) \union ToSet(inbox) : e < f
  /\ \A e \in ToSet(wire), f \in ToSet(inbox) : e < f

\* Before the subscription the cursor is the last frame sent, and the last page has left
\* nothing behind it.
CursorIsLast ==
  /\ conn.at \in {"off", "gone"} => wire = <<>>
  /\ conn.at \in {"off", "gone", "replay", "probe", "subscribing"} => inbox = <<>>
  /\ conn.at \in {"replay", "probe", "subscribing"} =>
       /\ \A e \in Frames : e <= conn.cursor
       /\ conn.cursor = 0 \/ conn.cursor \in Frames
  /\ conn.at \in {"probe", "subscribing"} => \A e \in conn.read : e <= conn.cursor

\* A subscription knows of everything published.
TailKnowsAll == conn.at = "tail" => With({"told", "committed"}) \subseteq Frames \union slipped

\* What is older than a frame was sent too, or has slipped.
OlderWasSent ==
  \A e \in With({"committed"}), f \in Frames : e < f => e \in Frames \union slipped

StreamInv ==
  /\ LogTypes /\ OneWriter /\ FramesWereTold /\ FramesAscend
  /\ CursorIsLast /\ TailKnowsAll /\ OlderWasSent

LEMMA StartsAscending == ToSet(<<>>) = {} /\ Ascending(<<>>) /\ <<>> \in Seq(Nat)
BY DEF ToSet, Ascending

LEMMA AppendAscends ==
  ASSUME NEW s \in Seq(Nat), NEW e \in Nat
  PROVE  /\ Append(s, e) \in Seq(Nat) /\ ToSet(Append(s, e)) = ToSet(s) \union {e}
         /\ Ascending(s) /\ (\A x \in ToSet(s) : x < e) => Ascending(Append(s, e))
<1>1. /\ Append(s, e) \in Seq(Nat) /\ Len(Append(s, e)) = Len(s) + 1
      /\ \A i \in 1..Len(s) : Append(s, e)[i] = s[i]
      /\ Append(s, e)[Len(s) + 1] = e
  BY AppendProperties
<1>2. DOMAIN s = 1..Len(s) /\ Len(s) \in Nat
  OBVIOUS
<1>3. DOMAIN Append(s, e) = 1..(Len(s) + 1)
  BY <1>1
<1> DEFINE t == Append(s, e)
<1> HIDE DEF t
<1>4. ToSet(t) = ToSet(s) \union {e}
  <2>1. \A i \in 1..(Len(s) + 1) : i \in 1..Len(s) \/ i = Len(s) + 1
    BY <1>2
  <2>2. \A i \in 1..Len(s) : i \in 1..(Len(s) + 1)
    BY <1>2
  <2>3. Len(s) + 1 \in 1..(Len(s) + 1)
    BY <1>2
  <2>4. DOMAIN t = 1..(Len(s) + 1) /\ t[Len(s) + 1] = e /\ \A i \in 1..Len(s) : t[i] = s[i]
    BY <1>1, <1>3 DEF t
  <2> QED
    BY <1>2, <2>1, <2>2, <2>3, <2>4 DEF ToSet
<1>5. ASSUME Ascending(s), \A x \in ToSet(s) : x < e
      PROVE  Ascending(t)
  <2> SUFFICES ASSUME NEW i \in DOMAIN t, NEW j \in DOMAIN t, i < j PROVE t[i] < t[j]
    BY DEF Ascending
  <2>1. i \in 1..Len(s) /\ t[i] = s[i]
    BY <1>1, <1>2, <1>3 DEF t
  <2>2. s[i] \in ToSet(s)
    BY <1>2, <2>1 DEF ToSet
  <2>3. CASE j = Len(s) + 1
    BY <1>1, <1>5, <2>1, <2>2, <2>3 DEF t
  <2>4. CASE j # Len(s) + 1
    <3>1. j \in 1..Len(s) /\ t[j] = s[j]
      BY <1>1, <1>2, <1>3, <2>4 DEF t
    <3> QED
      BY <1>2, <1>5, <2>1, <3>1 DEF Ascending
  <2> QED
    BY <2>3, <2>4
<1> QED
  BY <1>1, <1>4, <1>5 DEF t

LEMMA TailAscends ==
  ASSUME NEW s \in Seq(Nat), s # <<>>
  PROVE  /\ Head(s) \in Nat /\ Tail(s) \in Seq(Nat) /\ ToSet(s) = {Head(s)} \union ToSet(Tail(s))
         /\ Ascending(s) => Ascending(Tail(s)) /\ \A x \in ToSet(Tail(s)) : Head(s) < x
<1>1. /\ Head(s) \in Nat /\ Tail(s) \in Seq(Nat) /\ Len(Tail(s)) = Len(s) - 1
      /\ \A i \in 1..Len(Tail(s)) : Tail(s)[i] = s[i + 1]
  BY HeadTailProperties
<1>2. DOMAIN s = 1..Len(s) /\ Len(s) \in Nat /\ Len(s) > 0 /\ Head(s) = s[1]
  OBVIOUS
<1> DEFINE t == Tail(s)
<1>3. DOMAIN t = 1..(Len(s) - 1) /\ \A i \in DOMAIN t : t[i] = s[i + 1]
  BY <1>1
<1> HIDE DEF t
<1>4. /\ \A i \in DOMAIN t : i \in Nat /\ i + 1 \in DOMAIN s /\ 1 < i + 1
      /\ 1 \in DOMAIN s
      /\ \A j \in DOMAIN s : j = 1 \/ (j - 1 \in DOMAIN t /\ (j - 1) + 1 = j)
  BY <1>2, <1>3
<1>5. ToSet(s) = {s[1]} \union ToSet(t)
  BY <1>3, <1>4 DEF ToSet
<1>6. ASSUME Ascending(s) PROVE Ascending(t) /\ \A x \in ToSet(t) : s[1] < x
  <2>1. \A i \in DOMAIN t : s[1] < t[i]
    BY <1>3, <1>4, <1>6 DEF Ascending
  <2>2. ASSUME NEW i \in DOMAIN t, NEW j \in DOMAIN t, i < j PROVE t[i] < t[j]
    <3>1. i + 1 \in DOMAIN s /\ j + 1 \in DOMAIN s /\ i + 1 < j + 1
      BY <1>4, <2>2
    <3> QED
      BY <1>3, <1>6, <3>1 DEF Ascending
  <2> QED
    BY <2>1, <2>2 DEF Ascending, ToSet
<1> QED
  BY <1>1, <1>2, <1>5, <1>6 DEF t

LEMMA ConcatAscends ==
  ASSUME NEW s \in Seq(Nat), NEW u \in Seq(Nat)
  PROVE  /\ s \o u \in Seq(Nat) /\ ToSet(s \o u) = ToSet(s) \union ToSet(u)
         /\ Ascending(s) /\ Ascending(u) /\ (\A x \in ToSet(s), y \in ToSet(u) : x < y)
              => Ascending(s \o u)
<1> DEFINE t == s \o u
           n == Len(s)
           k == Len(u)
<1>1. /\ t \in Seq(Nat) /\ Len(t) = n + k
      /\ \A i \in 1..(n + k) : t[i] = IF i <= n THEN s[i] ELSE u[i - n]
  BY ConcatProperties, Zenon
<1>2. n \in Nat /\ k \in Nat /\ DOMAIN s = 1..n /\ DOMAIN u = 1..k
  OBVIOUS
<1>3. DOMAIN t = 1..(n + k)
  BY <1>1
<1> HIDE DEF t, n, k
<1>4. /\ \A i \in 1..n : i \in 1..(n + k) /\ i <= n
      /\ \A i \in 1..k : n + i \in 1..(n + k) /\ ~(n + i <= n) /\ (n + i) - n = i
      /\ \A i \in 1..(n + k) : IF i <= n THEN i \in 1..n ELSE i - n \in 1..k
  BY <1>2
<1>5. ToSet(t) = ToSet(s) \union ToSet(u)
  <2>1. ASSUME NEW i \in 1..n PROVE s[i] = t[i] /\ i \in 1..(n + k)
    BY <1>1, <1>4
  <2>2. ASSUME NEW i \in 1..k PROVE u[i] = t[n + i] /\ n + i \in 1..(n + k)
    BY <1>1, <1>4
  <2>3. ASSUME NEW i \in 1..(n + k) PROVE t[i] \in ToSet(s) \union ToSet(u)
    <3>1. CASE i <= n
      <4>1. i \in DOMAIN s /\ t[i] = s[i]
        BY <1>1, <1>2, <1>4, <3>1
      <4> QED BY <4>1 DEF ToSet
    <3>2. CASE ~(i <= n)
      <4>1. i - n \in DOMAIN u /\ t[i] = u[i - n]
        BY <1>1, <1>2, <1>4, <3>2
      <4> QED BY <4>1 DEF ToSet
    <3> QED BY <3>1, <3>2
  <2>4. ToSet(t) \subseteq ToSet(s) \union ToSet(u)
    <3> HIDE DEF n, k
    <3>1. ASSUME NEW i \in DOMAIN t PROVE t[i] \in ToSet(s) \union ToSet(u)
      BY <1>3, <2>3, Zenon
    <3>2. ToSet(t) = {t[i] : i \in DOMAIN t}
      BY DEF ToSet
    <3> QED BY <3>1, <3>2
  <2>5. ToSet(s) \subseteq ToSet(t)
    BY <1>2, <1>3, <2>1 DEF ToSet
  <2>6. ToSet(u) \subseteq ToSet(t)
    BY <1>2, <1>3, <2>2 DEF ToSet
  <2> QED BY <2>4, <2>5, <2>6
<1>6. ASSUME Ascending(s), Ascending(u), \A x \in ToSet(s), y \in ToSet(u) : x < y,
             NEW i \in DOMAIN t, NEW j \in DOMAIN t, i < j
      PROVE  t[i] < t[j]
  <2>1. CASE j <= n
    <3>1. i <= n /\ i \in 1..n /\ j \in 1..n
      BY <1>2, <1>3, <1>6, <2>1
    <3> QED
      BY <1>1, <1>2, <1>3, <1>6, <2>1, <3>1 DEF Ascending
  <2>2. CASE i <= n /\ ~(j <= n)
    <3>1. i \in 1..n /\ j - n \in 1..k
      BY <1>2, <1>3, <2>2
    <3>2. t[i] \in ToSet(s) /\ t[j] \in ToSet(u)
      BY <1>1, <1>2, <1>3, <2>2, <3>1 DEF ToSet
    <3> QED
      BY <1>6, <3>2
  <2>3. CASE ~(i <= n) /\ ~(j <= n)
    <3>1. i - n \in 1..k /\ j - n \in 1..k /\ i - n < j - n
      BY <1>2, <1>3, <1>6, <2>3
    <3>2. u[i - n] < u[j - n]
      BY <1>2, <1>6, <3>1 DEF Ascending
    <3> QED
      BY <1>1, <1>3, <2>3, <3>2
  <2> QED
    BY <1>2, <1>3, <1>6, <2>1, <2>2, <2>3
<1> QED
  BY <1>1, <1>5, <1>6 DEF Ascending, t

\* The last of an ascending sequence is its greatest.
LEMMA LastIsGreatest ==
  ASSUME NEW s \in Seq(Nat), Ascending(s), s # <<>>
  PROVE  Last(s) \in ToSet(s) /\ Last(s) \in Nat /\ \A x \in ToSet(s) : x <= Last(s)
<1>1. DOMAIN s = 1..Len(s) /\ Len(s) \in Nat /\ Len(s) \in DOMAIN s /\ s[Len(s)] \in Nat
  OBVIOUS
<1>2. ASSUME NEW i \in DOMAIN s PROVE s[i] <= s[Len(s)]
  <2>1. i \in Nat /\ s[i] \in Nat /\ (i < Len(s) \/ i = Len(s))
    BY <1>1, <1>2
  <2> QED BY <1>1, <2>1 DEF Ascending
<1> QED BY <1>1, <1>2 DEF Last, ToSet

LEMMA EventsAreNumbered ==
  ASSUME LogTypes
  PROVE  /\ LogEvents = 1..Len(log) /\ Len(log) \in Nat /\ 0 \notin LogEvents
         /\ LogEvents \subseteq Nat
         /\ \A e \in LogEvents : log[e] \in [kind : Kinds, at : Stages]
<1> DEFINE R == [kind : Kinds, at : Stages]
<1>1. log \in Seq(R)
  BY DEF LogTypes
<1> HIDE DEF R
<1>2. DOMAIN log = 1..Len(log) /\ Len(log) \in Nat /\ \A e \in 1..Len(log) : log[e] \in R
  BY <1>1
<1> QED BY <1>2 DEF LogEvents, R

\* The state of events changes in place.
LEMMA LogChangesInPlace ==
  ASSUME LogTypes, log' = [f \in LogEvents |-> log'[f]],
         \A f \in LogEvents : log'[f] \in [kind : Kinds, at : Stages]
  PROVE  log' \in Seq([kind : Kinds, at : Stages]) /\ Len(log') = Len(log) /\ LogEvents' = LogEvents
<1> DEFINE R == [kind : Kinds, at : Stages]
<1>1. LogEvents = 1..Len(log) /\ Len(log) \in Nat
  BY EventsAreNumbered
<1> HIDE DEF R
<1>2. \A f \in LogEvents : log'[f] \in R
  BY DEF R
<1>3. log' \in [1..Len(log) -> R]
  BY <1>1, <1>2, Zenon
<1>4. log' \in Seq(R) /\ Len(log') = Len(log)
  BY <1>1, <1>3
<1> QED BY <1>1, <1>3, <1>4 DEF R, LogEvents

LEMMA FramesAreNumbers ==
  ASSUME LogTypes
  PROVE  ToSet(seen) \subseteq Nat /\ ToSet(wire) \subseteq Nat /\ ToSet(inbox) \subseteq Nat
BY DEF LogTypes, ToSet

----------------------------------------------------------------------------
(* The writers.                                                            *)

\* What is sent precedes what is not settled, but for the event that was just told.
LEMMA SentPrecedesOpen ==
  ASSUME StreamInv, NEW e \in LogEvents, log[e].at \in {"inserted", "told"}, NEW f \in Frames
  PROVE  f \in LogEvents /\ (f < e \/ (f = e /\ log[e].at = "told"))
<1>1. f \in LogEvents /\ log[f].at \in {"told", "committed", "aborted"}
  BY DEF StreamInv, FramesWereTold
<1>2. e \in Nat /\ f \in Nat
  BY <1>1, EventsAreNumbered DEF StreamInv
<1>3. ~(e < f)
  BY <1>1 DEF StreamInv, OneWriter
<1> QED BY <1>1, <1>2, <1>3

LEMMA InsertKeeps ==
  ASSUME StreamInv, NEW kind \in Kinds, InsertEvent(kind)
  PROVE  StreamInv'
<1> DEFINE n == Len(log) + 1
           new == [kind |-> kind, at |-> IF Unsettled = {} THEN "inserted" ELSE "held"]
<1>1. /\ log' = Append(log, new) /\ With({"held"}) = {}
      /\ UNCHANGED <<ended, conn, inbox, wire, seen, slipped, drops>>
  BY DEF InsertEvent
<1>2. new \in [kind : Kinds, at : Stages] /\ log \in Seq([kind : Kinds, at : Stages])
  BY DEF Stages, StreamInv, LogTypes
<1>3. /\ log' \in Seq([kind : Kinds, at : Stages]) /\ Len(log') = n
      /\ \A i \in 1..Len(log) : log'[i] = log[i]
      /\ log'[n] = new
  BY <1>1, <1>2, AppendProperties
<1> HIDE DEF new
<1>4. /\ LogEvents = 1..Len(log) /\ Len(log) \in Nat /\ LogEvents \subseteq Nat
      /\ LogEvents' = LogEvents \union {n} /\ n \notin LogEvents
      /\ \A e \in LogEvents : e < n
  BY <1>3, <1>2, EventsAreNumbered DEF StreamInv, LogEvents
<1>5. /\ \A e \in LogEvents : log'[e] = log[e]
      /\ log'[n].at = IF Unsettled = {} THEN "inserted" ELSE "held"
  BY <1>3, <1>4 DEF new
<1>6. ASSUME NEW at, "held" \notin at, "inserted" \notin at PROVE With(at)' = With(at)
  BY <1>4, <1>5, <1>6 DEF With
<1>7. LogTypes'
  BY <1>1, <1>3 DEF StreamInv, LogTypes
<1>8. OneWriter'
  <2>1. ASSUME NEW e \in LogEvents', NEW f \in LogEvents', e < f,
               log'[e].at \in {"inserted", "told"}
        PROVE  log'[f].at = "held"
    <3>1. e \in LogEvents /\ log[e].at \in {"inserted", "told"}
      BY <1>4, <1>5, <2>1
    <3>2. CASE f \in LogEvents
      BY <1>5, <2>1, <3>1, <3>2 DEF StreamInv, OneWriter
    <3>3. CASE f = n
      BY <1>5, <3>1, <3>3 DEF Unsettled, With
    <3> QED BY <1>4, <3>2, <3>3
  <2>2. ASSUME NEW e \in With({"held"})' PROVE e = Len(log') /\ \E f \in Unsettled' : f < e
    <3>1. e = n /\ log'[n].at = "held"
      BY <1>1, <1>4, <1>5, <2>2 DEF With
    <3>2. PICK f \in Unsettled : TRUE
      BY <1>5, <3>1
    <3>3. f \in Unsettled' /\ f < n
      BY <1>4, <1>5, <3>2 DEF Unsettled, With
    <3> QED BY <1>3, <3>1, <3>3
  <2> QED BY <2>1, <2>2 DEF OneWriter
<1>9. Frames' = Frames
  BY <1>1 DEF Frames
<1>10. FramesWereTold'
  BY <1>4, <1>5, <1>9 DEF StreamInv, FramesWereTold
<1>11. FramesAscend' /\ CursorIsLast'
  BY <1>1, <1>9 DEF StreamInv, FramesAscend, CursorIsLast, Ascending
<1>12. TailKnowsAll' /\ OlderWasSent'
  BY <1>1, <1>6, <1>9 DEF StreamInv, TailKnowsAll, OlderWasSent
<1> QED BY <1>7, <1>8, <1>10, <1>11, <1>12 DEF StreamInv

\* One of the two writers is done; the one that was held goes on or is refused.
LEMMA SettledKeeps ==
  ASSUME StreamInv, NEW e \in LogEvents,
         NEW how \in {"committed", "aborted"}, NEW next \in {"aborted", "inserted"},
         log[e].at \in {"inserted", "told"}, how = "committed" => log[e].at = "told",
         log' = LogAfter(e, how, next),
         UNCHANGED <<ended, conn, inbox, wire, seen, slipped, drops>>
  PROVE  StreamInv'
<1>1. /\ LogEvents = 1..Len(log) /\ Len(log) \in Nat /\ LogEvents \subseteq Nat
      /\ \A f \in LogEvents : log[f] \in [kind : Kinds, at : Stages]
  BY EventsAreNumbered DEF StreamInv
<1>2. /\ log' = [f \in LogEvents |-> log'[f]]
      /\ log'[e].at = how
      /\ \A f \in LogEvents : /\ log'[f] \in [kind : Kinds, at : Stages]
                              /\ f # e /\ log[f].at = "held" => log'[f].at = next
                              /\ f # e /\ log[f].at # "held" => log'[f] = log[f]
  BY <1>1 DEF LogAfter, Stages
<1>3. log' \in Seq([kind : Kinds, at : Stages]) /\ Len(log') = Len(log) /\ LogEvents' = LogEvents
  BY <1>2, LogChangesInPlace DEF StreamInv
<1>4. LogTypes'
  BY <1>3 DEF StreamInv, LogTypes
<1>5. ASSUME NEW f \in LogEvents PROVE log'[f].at # "held"
  BY <1>2, <1>5
<1>6. ASSUME NEW f \in LogEvents, NEW g \in LogEvents, f < g PROVE log'[f].at \notin {"inserted", "told"}
  <2> SUFFICES ASSUME log'[f].at \in {"inserted", "told"} PROVE FALSE
    OBVIOUS
  <2>1. f # e
    BY <1>2
  <2>2. CASE log[f].at = "held"
    BY <1>1, <1>6, <2>2 DEF StreamInv, OneWriter, With
  <2>3. CASE log[f].at \in {"inserted", "told"}
    <3>1. f < e \/ e < f
      BY <1>1, <2>1
    <3> QED BY <2>3, <3>1 DEF StreamInv, OneWriter
  <2> QED BY <1>2, <2>1, <2>2, <2>3
<1>7. OneWriter'
  BY <1>3, <1>5, <1>6 DEF OneWriter, With
<1>8. Frames' = Frames
  BY DEF Frames
<1>9. FramesWereTold'
  BY <1>2, <1>3, <1>8 DEF StreamInv, FramesWereTold
<1>10. FramesAscend' /\ CursorIsLast'
  BY <1>8 DEF StreamInv, FramesAscend, CursorIsLast, Ascending
<1>11. With({"told", "committed"})' \subseteq With({"told", "committed"})
  BY <1>2, <1>3 DEF With
<1>12. TailKnowsAll'
  BY <1>8, <1>11 DEF StreamInv, TailKnowsAll
<1>13. OlderWasSent'
  <2> SUFFICES ASSUME NEW c \in With({"committed"})', NEW f \in Frames, c < f
               PROVE  c \in Frames \union slipped
    BY <1>8 DEF OlderWasSent
  <2>1. CASE c = e
    <3>1. f \in LogEvents /\ (f < e \/ f = e)
      BY SentPrecedesOpen
    <3> QED BY <1>1, <2>1, <3>1
  <2>2. CASE c # e
    <3>1. c \in With({"committed"})
      BY <1>2, <1>3, <2>2 DEF With
    <3> QED BY <3>1 DEF StreamInv, OlderWasSent
  <2> QED BY <2>1, <2>2
<1> QED BY <1>4, <1>7, <1>9, <1>10, <1>12, <1>13 DEF StreamInv

LEMMA CommitKeeps ==
  ASSUME StreamInv, NEW e \in LogEvents, CommitEvent(e) PROVE StreamInv'
BY SettledKeeps DEF CommitEvent

LEMMA AbortKeeps ==
  ASSUME StreamInv, NEW e \in LogEvents, AbortEvent(e) PROVE StreamInv'
<1>1. log[e].at \in {"inserted", "told"}
  BY DEF AbortEvent, Unsettled, With
<1> QED BY <1>1, SettledKeeps DEF AbortEvent

LEMMA PublishKeeps ==
  ASSUME StreamInv, NEW e \in LogEvents, NEW up \in BOOLEAN, PublishEvent(e, up) PROVE StreamInv'
<1> DEFINE reaches == up /\ conn.at = "tail"
<1>1. /\ log[e].at = "inserted" /\ log' = [log EXCEPT ![e].at = "told"]
      /\ inbox' = IF reaches THEN Append(inbox, e) ELSE inbox
      /\ slipped' = IF up \/ conn.at # "tail" THEN slipped ELSE slipped \union {e}
      /\ UNCHANGED <<ended, conn, wire, seen, drops>>
  BY DEF PublishEvent
<1>2. /\ LogEvents = 1..Len(log) /\ Len(log) \in Nat /\ LogEvents \subseteq Nat
      /\ \A f \in LogEvents : log[f] \in [kind : Kinds, at : Stages]
  BY EventsAreNumbered DEF StreamInv
<1>3. /\ log' \in Seq([kind : Kinds, at : Stages]) /\ Len(log') = Len(log) /\ LogEvents' = LogEvents
      /\ log'[e].at = "told" /\ \A f \in LogEvents : f # e => log'[f] = log[f]
  <2>1. log' = [f \in LogEvents |-> log'[f]]
    BY <1>1 DEF LogEvents
  <2>2. log'[e].at = "told" /\ \A f \in LogEvents : f # e => log'[f] = log[f]
    BY <1>1, <1>2 DEF LogEvents
  <2>3. \A f \in LogEvents : log'[f] \in [kind : Kinds, at : Stages]
    BY <1>1, <1>2 DEF Stages, LogEvents
  <2> QED BY <2>1, <2>2, <2>3, LogChangesInPlace DEF StreamInv
<1>4. OneWriter'
  <2>1. With({"held"})' = With({"held"}) /\ Unsettled' = Unsettled
    BY <1>1, <1>3 DEF With, Unsettled
  <2>2. ASSUME NEW f \in LogEvents, NEW g \in LogEvents, f < g, log'[f].at \in {"inserted", "told"}
        PROVE  log'[g].at = "held"
    <3>1. log[f].at \in {"inserted", "told"}
      BY <1>1, <1>3, <2>2
    <3>2. log[g].at = "held"
      BY <2>2, <3>1 DEF StreamInv, OneWriter
    <3> QED BY <1>1, <1>3, <3>2
  <2> QED BY <1>3, <2>1, <2>2 DEF StreamInv, OneWriter
<1>5. \A f \in Frames : f \in LogEvents /\ f < e
  BY <1>1, SentPrecedesOpen
<1>6. /\ inbox \in Seq(Nat) /\ e \in Nat /\ seen \in Seq(Nat) /\ wire \in Seq(Nat)
      /\ Ascending(inbox) /\ \A f \in ToSet(inbox) : f < e
  BY <1>2, <1>5 DEF StreamInv, LogTypes, FramesAscend, Frames
<1>7. /\ inbox' \in Seq(Nat) /\ Ascending(inbox)'
      /\ ToSet(inbox)' = IF reaches THEN ToSet(inbox) \union {e} ELSE ToSet(inbox)
      /\ Frames' = IF reaches THEN Frames \union {e} ELSE Frames
  <2>1. CASE reaches
    <3>1. inbox' = Append(inbox, e)
      BY <1>1, <2>1
    <3>2. Ascending(Append(inbox, e)) /\ ToSet(Append(inbox, e)) = ToSet(inbox) \union {e}
          /\ Append(inbox, e) \in Seq(Nat)
      BY <1>6, AppendAscends
    <3> QED BY <1>1, <2>1, <3>1, <3>2 DEF Frames, Ascending
  <2>2. CASE ~reaches
    BY <1>1, <1>6, <2>2 DEF Frames, Ascending
  <2> QED BY <2>1, <2>2
<1>8. LogTypes'
  BY <1>1, <1>3, <1>7 DEF StreamInv, LogTypes
<1>9. FramesWereTold'
  BY <1>3, <1>7 DEF StreamInv, FramesWereTold
<1>10. FramesAscend'
  BY <1>1, <1>5, <1>7 DEF StreamInv, FramesAscend, Frames, Ascending
<1>11. CursorIsLast'
  BY <1>1, <1>7 DEF StreamInv, CursorIsLast
<1>12. With({"told", "committed"})' = With({"told", "committed"}) \union {e}
       /\ With({"committed"})' = With({"committed"})
  BY <1>1, <1>3 DEF With
<1>13. TailKnowsAll'
  BY <1>1, <1>7, <1>12 DEF StreamInv, TailKnowsAll
<1>14. OlderWasSent'
  <2> SUFFICES ASSUME NEW c \in With({"committed"}), NEW f \in Frames', c < f
               PROVE  c \in Frames' \union slipped'
    BY <1>12 DEF OlderWasSent
  <2>1. CASE f \in Frames
    BY <1>1, <1>7, <2>1 DEF StreamInv, OlderWasSent
  <2>2. CASE reaches
    BY <1>1, <1>7, <2>2 DEF StreamInv, TailKnowsAll, With
  <2> QED BY <1>7, <2>1, <2>2
<1> QED BY <1>4, <1>8, <1>9, <1>10, <1>11, <1>13, <1>14 DEF StreamInv

----------------------------------------------------------------------------
(* The endpoint and the client.                                            *)

LEMMA OpenKeeps == ASSUME StreamInv, OpenStream PROVE StreamInv'
<1>1. /\ conn.at = "off" /\ wire = <<>> /\ inbox = <<>>
      /\ conn' = [at |-> IF ended /\ LastSeen = 0 THEN "gone" ELSE "replay",
                  cursor |-> LastSeen, read |-> {}]
      /\ UNCHANGED <<log, ended, inbox, wire, seen, slipped, drops>>
  BY DEF OpenStream, StreamInv, CursorIsLast
<1>2. Frames = ToSet(seen) /\ Frames' = Frames
  BY <1>1, StartsAscending DEF Frames
<1>3. seen \in Seq(Nat) /\ Ascending(seen)
  BY DEF StreamInv, LogTypes, FramesAscend
<1>4. LastSeen \in Nat /\ (LastSeen = 0 \/ LastSeen \in ToSet(seen)) /\ \A x \in ToSet(seen) : x <= LastSeen
  BY <1>3, LastIsGreatest, StartsAscending DEF LastSeen
<1>5. LogTypes' /\ conn'.at \in {"gone", "replay"} /\ conn'.cursor = LastSeen
  BY <1>1, <1>4 DEF StreamInv, LogTypes, ConnPlaces
<1>6. CursorIsLast'
  BY <1>1, <1>2, <1>4, <1>5 DEF CursorIsLast
<1>7. OneWriter' /\ FramesWereTold' /\ FramesAscend' /\ TailKnowsAll' /\ OlderWasSent'
  BY <1>1, <1>2, <1>5 DEF StreamInv, OneWriter, With, Unsettled, LogEvents, FramesWereTold,
     FramesAscend, Ascending, TailKnowsAll, OlderWasSent
<1> QED BY <1>5, <1>6, <1>7 DEF StreamInv

\* What is at or before the cursor was sent or has slipped.
LEMMA BeforeTheCursor ==
  ASSUME StreamInv, conn.at \in {"replay", "probe", "subscribing"},
         NEW c \in LogEvents, log[c].at \in {"told", "committed"}, c <= conn.cursor
  PROVE  c \in Frames \union slipped
<1>1. c \in Nat /\ c # 0 /\ conn.cursor \in Nat
  BY EventsAreNumbered DEF StreamInv, LogTypes
<1>2. conn.cursor \in Frames /\ conn.cursor \in LogEvents /\ log[conn.cursor].at # "held"
  BY <1>1 DEF StreamInv, CursorIsLast, FramesWereTold
<1>3. CASE c = conn.cursor
  BY <1>2, <1>3
<1>4. CASE c < conn.cursor
  <2>1. log[c].at = "committed"
    BY <1>2, <1>4 DEF StreamInv, OneWriter
  <2> QED BY <1>2, <1>4, <2>1 DEF StreamInv, OlderWasSent, With
<1> QED BY <1>1, <1>3, <1>4

LEMMA ReplayKeeps == ASSUME StreamInv, ReplayPage PROVE StreamInv'
<1>1. PICK page \in Pages :
        /\ wire' = wire \o page
        /\ conn' = [at |-> IF Len(page) < REPLAY_BATCH_LIMIT THEN "probe" ELSE "replay",
                    cursor |-> IF page = <<>> THEN conn.cursor ELSE Last(page),
                    read |-> With({"committed"})]
  BY DEF ReplayPage
<1>2. conn.at = "replay" /\ inbox = <<>> /\ UNCHANGED <<log, ended, inbox, seen, slipped, drops>>
  BY DEF ReplayPage, StreamInv, CursorIsLast
<1>3. /\ LogEvents \subseteq Nat /\ conn.cursor \in Nat /\ Missed \subseteq Nat
      /\ \A c \in With({"committed"}) : c \in LogEvents /\ log[c].at = "committed" /\ c \in Nat
  BY EventsAreNumbered DEF StreamInv, LogTypes, Missed, With
<1>4. /\ page \in Seq(Nat) /\ Ascending(page) /\ ToSet(page) \subseteq Missed
      /\ \A e \in Missed : \/ e \in ToSet(page)
                           \/ Len(page) = REPLAY_BATCH_LIMIT /\ Last(page) < e
  <2>1. PICK n \in 0..REPLAY_BATCH_LIMIT : page \in [1..n -> Missed]
    BY <1>1 DEF Pages
  <2>2. page \in Seq(Nat) /\ ToSet(page) \subseteq Missed
    <3>1. n \in Nat /\ page \in [1..n -> Nat] /\ DOMAIN page = 1..n
      <4>1. n \in Nat
        BY StreamAssumption
      <4>2. DOMAIN page = 1..n /\ \A i \in 1..n : page[i] \in Nat
        BY <1>3, <2>1
      <4>3. page = [i \in 1..n |-> page[i]]
        BY <2>1
      <4> QED BY <4>1, <4>2, <4>3
    <3>2. ToSet(page) \subseteq Missed
      BY <2>1, <3>1 DEF ToSet
    <3> QED BY <3>1, <3>2
  <2> QED BY <2>2 DEF Pages
<1>5. /\ page = <<>> => ToSet(page) = {} /\ Len(page) = 0
      /\ page # <<>> => /\ Last(page) \in ToSet(page) /\ Last(page) \in Nat
                        /\ \A x \in ToSet(page) : x <= Last(page)
  BY <1>4, LastIsGreatest, StartsAscending
<1>6. \A e \in ToSet(page) : e \in Nat /\ e > conn.cursor /\ e \in With({"committed"})
  BY <1>3, <1>4 DEF Missed
<1>7. \A e \in Frames : e \in Nat /\ e <= conn.cursor
  BY <1>2, FramesAreNumbers DEF StreamInv, CursorIsLast, Frames
<1>8. \A e \in Frames, f \in ToSet(page) : e < f
  BY <1>3, <1>6, <1>7
<1>9. /\ wire' \in Seq(Nat) /\ ToSet(wire)' = ToSet(wire) \union ToSet(page) /\ Ascending(wire)'
      /\ Frames' = Frames \union ToSet(page)
  <2>1. wire \in Seq(Nat) /\ Ascending(wire) /\ \A x \in ToSet(wire), y \in ToSet(page) : x < y
    BY <1>8 DEF StreamInv, LogTypes, FramesAscend, Frames
  <2>2. /\ wire \o page \in Seq(Nat) /\ ToSet(wire \o page) = ToSet(wire) \union ToSet(page)
        /\ Ascending(wire \o page)
    BY <1>4, <2>1, ConcatAscends
  <2> QED BY <1>1, <1>2, <2>2 DEF Frames, Ascending
<1>10. /\ conn'.at \in {"probe", "replay"}
       /\ conn'.at = "probe" => Len(page) < REPLAY_BATCH_LIMIT
       /\ conn'.cursor = (IF page = <<>> THEN conn.cursor ELSE Last(page))
       /\ conn'.read = With({"committed"}) /\ conn'.cursor \in Nat
       /\ conn.cursor <= conn'.cursor
  BY <1>1, <1>3, <1>5, <1>6
<1>11. LogTypes'
  BY <1>1, <1>2, <1>3, <1>9, <1>10 DEF StreamInv, LogTypes, ConnPlaces
<1>12. OneWriter' /\ FramesWereTold'
  BY <1>2, <1>3, <1>6, <1>9 DEF StreamInv, OneWriter, With, Unsettled, LogEvents, FramesWereTold
<1>13. FramesAscend'
  BY <1>2, <1>8, <1>9, StartsAscending DEF StreamInv, FramesAscend, Frames, Ascending
<1>14. CursorIsLast'
  <2>1. \A e \in Frames' : e <= conn'.cursor
    BY <1>3, <1>5, <1>7, <1>9, <1>10
  <2>2. conn'.cursor = 0 \/ conn'.cursor \in Frames'
    BY <1>2, <1>5, <1>9, <1>10 DEF StreamInv, CursorIsLast
  <2>3. ASSUME conn'.at = "probe", NEW e \in With({"committed"}) PROVE e <= conn'.cursor
    <3>1. CASE e \in Missed
      <4>1. e \in ToSet(page)
        BY <1>4, <1>10, <2>3, <3>1, StreamAssumption
      <4> QED BY <1>5, <1>10, <4>1
    <3>2. CASE e \notin Missed
      BY <1>3, <1>10, <2>3, <3>2 DEF Missed
    <3> QED BY <3>1, <3>2
  <2> QED BY <1>2, <1>10, <2>1, <2>2, <2>3 DEF CursorIsLast
<1>15. OlderWasSent'
  <2> SUFFICES ASSUME NEW c \in With({"committed"}), NEW f \in Frames', c < f
               PROVE  c \in Frames' \union slipped
    BY <1>2 DEF OlderWasSent, With, LogEvents
  <2>1. CASE f \in Frames
    BY <1>9, <2>1 DEF StreamInv, OlderWasSent
  <2>2. CASE f \in ToSet(page) /\ c <= conn.cursor
    BY <1>2, <1>3, <1>9, <2>2, BeforeTheCursor
  <2>3. CASE f \in ToSet(page) /\ ~(c <= conn.cursor)
    <3>1. c \in Missed /\ page # <<>> /\ f <= Last(page) /\ f \in Nat /\ Last(page) \in Nat
      BY <1>3, <1>5, <1>6, <2>3 DEF Missed
    <3>2. ~(Last(page) < c)
      BY <1>3, <3>1
    <3> QED BY <1>4, <1>9, <3>1, <3>2
  <2> QED BY <1>9, <2>1, <2>2, <2>3
<1>16. TailKnowsAll'
  BY <1>10 DEF TailKnowsAll
<1> QED BY <1>11, <1>12, <1>13, <1>14, <1>15, <1>16 DEF StreamInv

LEMMA ProbeKeeps == ASSUME StreamInv, ProbeRow PROVE StreamInv'
<1>1. /\ conn.at = "probe" /\ conn' = [conn EXCEPT !.at = IF ended THEN "closed" ELSE "subscribing"]
      /\ UNCHANGED <<log, ended, inbox, wire, seen, slipped, drops>>
  BY DEF ProbeRow, At
<1>2. /\ LogTypes' /\ conn'.at \in {"closed", "subscribing"} /\ conn'.cursor = conn.cursor
      /\ conn'.read = conn.read
  BY <1>1 DEF StreamInv, LogTypes, ConnPlaces
<1>3. Frames' = Frames
  BY <1>1 DEF Frames
<1>4. CursorIsLast'
  BY <1>1, <1>2, <1>3 DEF StreamInv, CursorIsLast
<1>5. OneWriter' /\ FramesWereTold' /\ FramesAscend' /\ TailKnowsAll' /\ OlderWasSent'
  BY <1>1, <1>2, <1>3 DEF StreamInv, OneWriter, With, Unsettled, LogEvents, FramesWereTold,
     FramesAscend, Ascending, TailKnowsAll, OlderWasSent
<1> QED BY <1>2, <1>4, <1>5 DEF StreamInv

LEMMA SubscribeKeeps == ASSUME StreamInv, SubscribeTail PROVE StreamInv'
<1>1. /\ conn.at = "subscribing" /\ conn' = [conn EXCEPT !.at = "tail"]
      /\ slipped' = slipped \union {e \in With({"told", "committed"}) \ conn.read : e > conn.cursor}
      /\ UNCHANGED <<log, ended, inbox, wire, seen, drops>>
  BY DEF SubscribeTail, At
<1>2. LogTypes' /\ conn'.at = "tail"
  BY <1>1 DEF StreamInv, LogTypes, ConnPlaces
<1>3. Frames' = Frames /\ slipped \subseteq slipped'
  BY <1>1 DEF Frames
<1>4. TailKnowsAll'
  <2> SUFFICES ASSUME NEW c \in With({"told", "committed"}) PROVE c \in Frames \union slipped'
    BY <1>1, <1>3 DEF TailKnowsAll, With, LogEvents
  <2>1. c \in LogEvents /\ log[c].at \in {"told", "committed"} /\ c \in Nat /\ conn.cursor \in Nat
    BY EventsAreNumbered DEF StreamInv, LogTypes, With
  <2>2. CASE c <= conn.cursor
    BY <1>1, <1>3, <2>1, <2>2, BeforeTheCursor
  <2>3. CASE ~(c <= conn.cursor)
    <3>1. c \notin conn.read /\ c > conn.cursor
      BY <1>1, <2>1, <2>3 DEF StreamInv, CursorIsLast
    <3> QED BY <1>1, <3>1
  <2> QED BY <2>2, <2>3
<1>5. OneWriter' /\ FramesWereTold' /\ FramesAscend'
  BY <1>1, <1>3 DEF StreamInv, OneWriter, With, Unsettled, LogEvents, FramesWereTold,
     FramesAscend, Ascending
<1>6. OlderWasSent'
  BY <1>1, <1>3 DEF StreamInv, OlderWasSent, With, LogEvents
<1>7. CursorIsLast'
  BY <1>2 DEF CursorIsLast
<1> QED BY <1>2, <1>4, <1>5, <1>6, <1>7 DEF StreamInv

LEMMA TailKeeps == ASSUME StreamInv, TailYields PROVE StreamInv'
<1>1. /\ conn.at = "tail" /\ inbox # <<>>
      /\ wire' = Append(wire, Head(inbox)) /\ inbox' = Tail(inbox)
      /\ conn' = [conn EXCEPT !.at = "closed"] \/ conn' = conn
      /\ UNCHANGED <<log, ended, seen, slipped, drops>>
  BY DEF TailYields, At
<1>2. /\ wire \in Seq(Nat) /\ Ascending(wire) /\ inbox \in Seq(Nat) /\ Ascending(inbox)
      /\ \A e \in ToSet(wire), f \in ToSet(inbox) : e < f
  BY DEF StreamInv, LogTypes, FramesAscend
<1>3. /\ Head(inbox) \in Nat /\ inbox' \in Seq(Nat)
      /\ ToSet(inbox) = {Head(inbox)} \union ToSet(inbox')
      /\ Ascending(inbox') /\ \A x \in ToSet(inbox') : Head(inbox) < x
  BY <1>1, <1>2, TailAscends
<1>4. /\ wire' \in Seq(Nat) /\ ToSet(wire') = ToSet(wire) \union {Head(inbox)}
      /\ Ascending(wire')
  BY <1>1, <1>2, <1>3, AppendAscends
<1>5. Frames' = Frames
  BY <1>1, <1>3, <1>4 DEF Frames
<1>6. LogTypes' /\ conn'.at \in {"tail", "closed"}
  BY <1>1, <1>3, <1>4 DEF StreamInv, LogTypes, ConnPlaces
<1>7. FramesAscend'
  BY <1>1, <1>2, <1>3, <1>4 DEF StreamInv, FramesAscend, Ascending
<1>8. CursorIsLast'
  BY <1>6 DEF CursorIsLast
<1>9. OneWriter' /\ FramesWereTold' /\ TailKnowsAll' /\ OlderWasSent'
  BY <1>1, <1>5, <1>6 DEF StreamInv, OneWriter, With, Unsettled, LogEvents, FramesWereTold,
     TailKnowsAll, OlderWasSent
<1> QED BY <1>6, <1>7, <1>8, <1>9 DEF StreamInv

LEMMA ArriveKeeps == ASSUME StreamInv, FrameArrives PROVE StreamInv'
<1>1. /\ wire # <<>> /\ wire' = Tail(wire) /\ seen' = Append(seen, Head(wire))
      /\ UNCHANGED <<log, ended, conn, inbox, slipped, drops>>
  BY DEF FrameArrives
<1>2. /\ wire \in Seq(Nat) /\ Ascending(wire) /\ seen \in Seq(Nat) /\ Ascending(seen)
      /\ \A e \in ToSet(seen), f \in ToSet(wire) \union ToSet(inbox) : e < f
      /\ \A e \in ToSet(wire), f \in ToSet(inbox) : e < f
  BY DEF StreamInv, LogTypes, FramesAscend
<1>3. /\ Head(wire) \in Nat /\ wire' \in Seq(Nat)
      /\ ToSet(wire) = {Head(wire)} \union ToSet(wire')
      /\ Ascending(wire') /\ \A x \in ToSet(wire') : Head(wire) < x
  BY <1>1, <1>2, TailAscends
<1>4. /\ seen' \in Seq(Nat) /\ ToSet(seen') = ToSet(seen) \union {Head(wire)}
      /\ Ascending(seen')
  BY <1>1, <1>2, <1>3, AppendAscends
<1>5. Frames' = Frames
  BY <1>1, <1>3, <1>4 DEF Frames
<1>6. LogTypes'
  BY <1>1, <1>3, <1>4 DEF StreamInv, LogTypes
<1>7. FramesAscend'
  BY <1>1, <1>2, <1>3, <1>4 DEF StreamInv, FramesAscend, Ascending
<1>8. CursorIsLast'
  BY <1>1, <1>5 DEF StreamInv, CursorIsLast
<1>9. OneWriter' /\ FramesWereTold' /\ TailKnowsAll' /\ OlderWasSent'
  BY <1>1, <1>5 DEF StreamInv, OneWriter, With, Unsettled, LogEvents, FramesWereTold,
     TailKnowsAll, OlderWasSent
<1> QED BY <1>6, <1>7, <1>8, <1>9 DEF StreamInv

\* What is older than a frame the client has is not under way.
LEMMA OlderThanSeen ==
  ASSUME StreamInv, NEW c \in With({"committed"}), NEW f \in ToSet(seen), c < f
  PROVE  c \in ToSet(seen) \union slipped
<1>1. c \in Nat /\ f \in Nat /\ ToSet(wire) \subseteq Nat /\ ToSet(inbox) \subseteq Nat
  BY EventsAreNumbered, FramesAreNumbers DEF StreamInv, With
<1>2. c \notin ToSet(wire) \union ToSet(inbox)
  BY <1>1 DEF StreamInv, FramesAscend
<1> QED BY <1>2 DEF StreamInv, OlderWasSent, Frames

LEMMA DropKeeps == ASSUME StreamInv, ConnectionDrops PROVE StreamInv'
<1>1. /\ conn' = [conn EXCEPT !.at = "off", !.read = {}] /\ inbox' = <<>> /\ wire' = <<>>
      /\ UNCHANGED <<log, ended, seen, slipped>>
  BY DEF ConnectionDrops
<1>2. Frames' = ToSet(seen) /\ Frames' \subseteq Frames
  BY <1>1, StartsAscending DEF Frames
<1>3. LogTypes' /\ conn'.at = "off"
  BY <1>1, StartsAscending DEF StreamInv, LogTypes, ConnPlaces
<1>4. FramesAscend' /\ CursorIsLast' /\ TailKnowsAll'
  BY <1>1, <1>3, StartsAscending DEF StreamInv, FramesAscend, CursorIsLast, TailKnowsAll, Ascending
<1>5. OneWriter' /\ FramesWereTold'
  BY <1>1, <1>2 DEF StreamInv, OneWriter, With, Unsettled, LogEvents, FramesWereTold
<1>6. OlderWasSent'
  BY <1>1, <1>2, OlderThanSeen DEF OlderWasSent, With, LogEvents
<1> QED BY <1>3, <1>4, <1>5, <1>6 DEF StreamInv

----------------------------------------------------------------------------

LEMMA StreamStarts == StreamInit => StreamInv
<1> SUFFICES ASSUME StreamInit PROVE StreamInv
  OBVIOUS
<1>1. /\ log = <<>> /\ conn = [at |-> "off", cursor |-> 0, read |-> {}]
      /\ inbox = <<>> /\ wire = <<>> /\ seen = <<>> /\ LogEvents = {}
  BY DEF StreamInit, LogEvents
<1>2. LogTypes
  BY <1>1 DEF LogTypes, ConnPlaces
<1>3. Frames = {}
  BY <1>1, StartsAscending DEF Frames
<1> QED BY <1>1, <1>2, <1>3, StartsAscending DEF StreamInv, OneWriter, FramesWereTold, FramesAscend,
       CursorIsLast, TailKnowsAll, OlderWasSent, With

LEMMA StreamKeeps == StreamInv /\ [StreamNext]_streamVars => StreamInv'
<1> SUFFICES ASSUME StreamInv, [StreamNext]_streamVars PROVE StreamInv'
  OBVIOUS
<1>1. CASE \E kind \in {"delta", "done"} : InsertEvent(kind)
  BY <1>1, InsertKeeps DEF Kinds
<1>2. CASE \E e \in LogEvents : CommitEvent(e) \/ AbortEvent(e) \/ \E up \in BOOLEAN : PublishEvent(e, up)
  BY <1>2, CommitKeeps, AbortKeeps, PublishKeeps
<1>3. CASE SessionRowEnds \/ UNCHANGED streamVars
  <2>1. UNCHANGED <<log, conn, inbox, wire, seen, slipped>>
    BY <1>3 DEF SessionRowEnds, streamVars
  <2> QED BY <2>1 DEF StreamInv, LogTypes, OneWriter, With, Unsettled, LogEvents, FramesWereTold,
        FramesAscend, Ascending, CursorIsLast, TailKnowsAll, OlderWasSent, Frames
<1>4. CASE OpenStream \/ ReplayPage \/ ProbeRow \/ SubscribeTail
  BY <1>4, OpenKeeps, ReplayKeeps, ProbeKeeps, SubscribeKeeps
<1>5. CASE TailYields \/ FrameArrives \/ ConnectionDrops
  BY <1>5, TailKeeps, ArriveKeeps, DropKeeps
<1> QED BY <1>1, <1>2, <1>3, <1>4, <1>5 DEF StreamNext

LEMMA StreamInvariant == StreamSpec => []StreamInv
<1> QED BY StreamStarts, StreamKeeps, PTL DEF StreamSpec

\* A client is told no event twice and none before an older one, and what it can no longer
\* get has slipped.
LEMMA InvReadsInOrder == StreamInv => EventsReadInOrder
<1> SUFFICES ASSUME StreamInv PROVE EventsReadInOrder
  OBVIOUS
<1>1. FramesInOrder
  BY DEF StreamInv, FramesAscend, FramesInOrder
<1>2. ASSUME NEW e \in With({"committed"}), e < LastSeen PROVE e \in ToSet(seen) \union slipped
  <2>1. e \in Nat /\ seen \in Seq(Nat) /\ Ascending(seen)
    BY EventsAreNumbered DEF StreamInv, LogTypes, FramesAscend, With
  <2>2. seen # <<>> /\ e < Last(seen)
    BY <1>2, <2>1 DEF LastSeen
  <2> QED BY <2>1, <2>2, LastIsGreatest, OlderThanSeen
<1> QED BY <1>1, <1>2 DEF EventsReadInOrder, GapsHaveSlipped

(***************************************************************************)
(* The intro.                                                              *)
(***************************************************************************)

TimerKinds == {"reveal", "beat", "leave", "glitch"}

IntroTypes ==
  intro \in [act : 1..5, timers : SUBSET ((1..5) \X TimerKinds), fade : SUBSET {"cross", "finish"},
             dismissed : BOOLEAN, waiting : BOOLEAN, seen : BOOLEAN, started : Nat]

\* What leads to the end of an act: its last timers, and in the first act the typewriter
\* that starts them.
IsEnding(t) == t[2] \in {"leave", "glitch"} \/ t = <<1, "reveal">>
Endings == {t \in intro.timers : IsEnding(t)}

\* One end is due at most, of the act that is on, and none while the next act fades in.
OneEnding ==
  /\ \A t, u \in Endings : t = u
  /\ \A t \in Endings : t[1] = intro.act /\ intro.act <= 4
  /\ "cross" \in intro.fade => Endings = {} /\ intro.act <= 4

\* The fade that starts the village is the one of the skip.
FinishIsASkip == "finish" \in intro.fade => intro.dismissed /\ intro.started = 0

IntroInv == IntroTypes /\ OneEnding /\ FinishIsASkip /\ SkipEndsTheIntro

\* What the acts schedule, and which of it ends them.
LEMMA TimersOfActs ==
  ASSUME NEW n \in 1..5
  PROVE  /\ TimersOf(n) \subseteq {n} \X TimerKinds
         /\ {t \in TimersOf(n) : IsEnding(t)} = IF n = 1 THEN {<<1, "reveal">>}
                                                ELSE IF n = 5 THEN {} ELSE {<<n, "leave">>}
         /\ Acts[n].glitch => n \in {2, 4}
<1>1. /\ Acts[1] = s1_hook /\ Acts[2] = s2_problem /\ Acts[3] = s3_brand
      /\ Acts[4] = s4_pillars /\ Acts[5] = s5_founder
  BY DEF Acts
<1>2. CASE n = 1
  <2>1. TimersOf(n) = {<<1, "reveal">>} /\ ~Acts[n].glitch
    BY <1>1, <1>2 DEF TimersOf, s1_hook
  <2> QED BY <1>2, <2>1 DEF IsEnding, TimerKinds
<1>3. CASE n \in {2, 4}
  <2>1. TimersOf(n) = {<<n, "beat">>, <<n, "leave">>}
    BY <1>1, <1>3 DEF TimersOf, s2_problem, s4_pillars
  <2> QED BY <1>3, <2>1 DEF IsEnding, TimerKinds
<1>4. CASE n = 3
  <2>1. TimersOf(n) = {<<3, "reveal">>, <<3, "beat">>, <<3, "leave">>} /\ ~Acts[n].glitch
    BY <1>1, <1>4 DEF TimersOf, s3_brand
  <2> QED BY <1>4, <2>1 DEF IsEnding, TimerKinds
<1>5. CASE n = 5
  <2>1. TimersOf(n) = {<<5, "reveal">>} /\ ~Acts[n].glitch
    BY <1>1, <1>5 DEF TimersOf, s5_founder
  <2> QED BY <1>5, <2>1 DEF IsEnding, TimerKinds
<1> QED BY <1>2, <1>3, <1>4, <1>5

LEMMA IntroStarts == IntroInit => IntroInv
<1> SUFFICES ASSUME IntroInit PROVE IntroInv
  OBVIOUS
<1>1. intro = [act |-> 1, timers |-> TimersOf(1), fade |-> {}, dismissed |-> FALSE,
               waiting |-> FALSE, seen |-> FALSE, started |-> 0]
  BY DEF IntroInit, RunScene
<1>2. TimersOf(1) \subseteq (1..5) \X TimerKinds /\ Endings = {<<1, "reveal">>}
  BY <1>1, TimersOfActs DEF Endings
<1> QED BY <1>1, <1>2 DEF IntroInv, IntroTypes, OneEnding, FinishIsASkip, SkipEndsTheIntro

\* A timer fires in an act that nobody skipped.
LEMMA FireKeeps == ASSUME IntroInv, FireTimer PROVE IntroInv'
<1>1. PICK t \in intro.timers :
        LET i == [intro EXCEPT !.timers = @ \ {t}]
            n == t[1]
        IN intro' = CASE t[2] = "reveal" -> RevealDone(i, n)
                      [] t[2] = "beat" -> IF n = 3 THEN Later(i, n, "reveal") ELSE i
                      [] t[2] = "leave" -> IF Acts[n].glitch THEN GlitchFrame(i, n) ELSE CrossfadeAndStart(i)
                      [] t[2] = "glitch" -> CrossfadeAndStart(i)
  BY DEF FireTimer
<1> DEFINE n == t[1]
           rest == intro.timers \ {t}
<1>2. n \in 1..5 /\ t[2] \in TimerKinds /\ t = <<n, t[2]>> /\ rest \subseteq (1..5) \X TimerKinds
  BY DEF IntroInv, IntroTypes
<1>3. ~intro.dismissed /\ intro.started = 0 /\ "finish" \notin intro.fade
  BY DEF IntroInv, SkipEndsTheIntro, IntroTypes, FinishIsASkip
<1> DEFINE Becomes(ts, f) == intro'.timers = ts /\ intro'.fade = f
<1>4. /\ intro' = [intro EXCEPT !.timers = intro'.timers, !.fade = intro'.fade,
                               !.waiting = intro'.waiting]
      /\ intro'.waiting \in BOOLEAN
      /\ \/ t[2] = "reveal" /\ n = 1 /\ Becomes(rest \union {<<1, "leave">>}, intro.fade)
         \/ t[2] = "reveal" /\ n # 1 /\ Becomes(rest, intro.fade)
         \/ /\ t[2] = "beat"
            /\ Becomes(rest, intro.fade) \/ Becomes(rest \union {<<3, "reveal">>}, intro.fade)
         \/ t[2] = "leave" /\ Becomes(rest \union {<<n, "glitch">>}, intro.fade)
         \/ t[2] \in {"leave", "glitch"} /\ Becomes(rest, intro.fade \union {"cross"})
  <2>1. intro.timers \ {t} = rest /\ intro.dismissed = FALSE
    BY <1>3 DEF IntroInv, IntroTypes
  <2> HIDE DEF rest
  <2>2. CASE t[2] = "reveal"
    <3> DEFINE i == [intro EXCEPT !.timers = rest]
    <3>1. intro' = RevealDone(i, n)
      <4>1. [intro EXCEPT !.timers = @ \ {t}] = i
        BY <2>1 DEF IntroInv, IntroTypes
      <4> HIDE DEF i
      <4> QED BY <1>1, <2>2, <4>1
    <3>2. CASE n = 1
      <4>1. intro' = [i EXCEPT !.timers = @ \union {<<1, "leave">>}]
        BY <3>1, <3>2 DEF RevealDone, Later
      <4>2. intro' = [intro EXCEPT !.timers = rest \union {<<1, "leave">>}]
        BY <4>1 DEF IntroInv, IntroTypes
      <4>3. Becomes(rest \union {<<1, "leave">>}, intro.fade) /\ intro'.waiting = intro.waiting
        BY <4>2 DEF IntroInv, IntroTypes
      <4>4. /\ intro' = [intro EXCEPT !.timers = intro'.timers, !.fade = intro'.fade,
                                     !.waiting = intro'.waiting]
            /\ intro'.waiting \in BOOLEAN
        BY <4>2, <4>3 DEF IntroInv, IntroTypes
      <4> QED BY <2>2, <3>2, <4>3, <4>4
    <3>3. CASE n = 5
      <4>1. intro' = [i EXCEPT !.waiting = TRUE]
        BY <3>1, <3>3 DEF RevealDone
      <4>2. intro' = [intro EXCEPT !.timers = rest, !.waiting = TRUE]
        BY <4>1 DEF IntroInv, IntroTypes
      <4>3. Becomes(rest, intro.fade) /\ intro'.waiting = TRUE
        BY <4>2 DEF IntroInv, IntroTypes
      <4>4. intro' = [intro EXCEPT !.timers = intro'.timers, !.fade = intro'.fade,
                                  !.waiting = intro'.waiting]
        BY <4>2, <4>3 DEF IntroInv, IntroTypes
      <4>5. intro'.waiting \in BOOLEAN
        BY <4>3, Zenon
      <4> QED BY <2>2, <3>3, <4>3, <4>4, <4>5
    <3>4. CASE n \notin {1, 5}
      BY <2>2, <3>1, <3>4 DEF RevealDone, Later, IntroInv, IntroTypes
    <3> QED BY <3>2, <3>3, <3>4
  <2>3. CASE t[2] = "beat"
    BY <1>1, <1>2, <2>1, <2>3 DEF Later, IntroInv, IntroTypes
  <2>4. CASE t[2] = "leave"
    BY <1>1, <1>2, <2>1, <2>4 DEF Later, GlitchFrame, CrossfadeAndStart, IntroInv, IntroTypes
  <2>5. CASE t[2] = "glitch"
    BY <1>1, <1>2, <2>1, <2>5 DEF CrossfadeAndStart, IntroInv, IntroTypes
  <2> QED BY <1>2, <2>2, <2>3, <2>4, <2>5 DEF TimerKinds
<1> HIDE DEF n, rest
<1>5. ASSUME IsEnding(t) PROVE {u \in rest : IsEnding(u)} = {} /\ n = intro.act /\ intro.act <= 4
  BY <1>5 DEF IntroInv, OneEnding, Endings, n, rest
<1>6. ASSUME ~IsEnding(t) PROVE {u \in rest : IsEnding(u)} = Endings
  <2>1. \A u \in intro.timers : IsEnding(u) => u \in rest
    BY <1>6 DEF rest
  <2>2. rest \subseteq intro.timers
    BY DEF rest
  <2> QED BY <2>1, <2>2 DEF Endings
<1>7. IntroTypes' /\ intro'.act = intro.act
  <2>1. <<3, "reveal">> \in (1..5) \X TimerKinds /\ <<1, "leave">> \in (1..5) \X TimerKinds
        /\ <<n, "glitch">> \in (1..5) \X TimerKinds
    BY <1>2 DEF TimerKinds
  <2>2. /\ intro'.timers \in SUBSET ((1..5) \X TimerKinds) /\ intro'.fade \in SUBSET {"cross", "finish"}
        /\ intro'.waiting \in BOOLEAN
    BY <1>2, <1>4, <2>1 DEF IntroInv, IntroTypes
  <2> QED BY <1>4, <2>2 DEF IntroInv, IntroTypes
<1>8. FinishIsASkip' /\ SkipEndsTheIntro'
  <2>1. intro'.dismissed = intro.dismissed /\ intro'.started = intro.started /\ "finish" \notin intro'.fade
    BY <1>3, <1>4 DEF IntroInv, IntroTypes
  <2> QED BY <1>3, <2>1 DEF FinishIsASkip, SkipEndsTheIntro
<1>9. OneEnding'
  <2>1. CASE t[2] = "reveal" /\ n = 1
    <3>1. IsEnding(t) /\ IsEnding(<<1, "leave">>)
      BY <1>2, <2>1 DEF IsEnding
    <3>2. Becomes(rest \union {<<1, "leave">>}, intro.fade) /\ "cross" \notin intro.fade
      BY <1>4, <2>1, <3>1 DEF IntroInv, OneEnding, Endings
    <3>3. Endings' = {<<1, "leave">>}
      BY <1>5, <3>1, <3>2 DEF Endings
    <3> QED BY <1>5, <1>7, <2>1, <3>1, <3>2, <3>3 DEF OneEnding
  <2>2. CASE (t[2] = "reveal" /\ n # 1) \/ t[2] = "beat"
    <3>1. ~IsEnding(t) /\ ~IsEnding(<<3, "reveal">>)
      BY <1>2, <2>2 DEF IsEnding
    <3>2. Becomes(rest, intro.fade) \/ Becomes(rest \union {<<3, "reveal">>}, intro.fade)
      BY <1>4, <2>2
    <3>3. Endings' = Endings
      BY <1>6, <3>1, <3>2 DEF Endings
    <3> QED BY <1>7, <3>2, <3>3 DEF IntroInv, OneEnding
  <2>3. CASE t[2] \in {"leave", "glitch"}
    <3>1. IsEnding(t) /\ IsEnding(<<n, "glitch">>)
      BY <2>3 DEF IsEnding
    <3>2. "cross" \notin intro.fade
      BY <3>1 DEF IntroInv, OneEnding, Endings
    <3>3. CASE Becomes(rest, intro.fade \union {"cross"})
      BY <1>5, <1>7, <3>1, <3>3 DEF OneEnding, Endings
    <3>4. CASE Becomes(rest \union {<<n, "glitch">>}, intro.fade)
      <4>1. Endings' = {<<n, "glitch">>}
        BY <1>5, <3>1, <3>4 DEF Endings
      <4> QED BY <1>5, <1>7, <3>1, <3>2, <3>4, <4>1 DEF OneEnding
    <3> QED BY <1>4, <2>3, <3>3, <3>4
  <2> QED BY <1>2, <2>1, <2>2, <2>3 DEF TimerKinds
<1> QED BY <1>7, <1>8, <1>9 DEF IntroInv

LEMMA SkipKeeps == ASSUME IntroInv, Skip PROVE IntroInv'
<1>1. /\ intro.started = 0 /\ ~intro.dismissed
      /\ intro' = [intro EXCEPT !.dismissed = TRUE, !.seen = TRUE, !.timers = {},
                                !.fade = @ \union {"finish"}]
  BY DEF Skip, SkipNow, CleanupAll
<1>2. IntroTypes' /\ Endings' = {} /\ intro'.act = intro.act
      /\ ("cross" \in intro'.fade <=> "cross" \in intro.fade)
  BY <1>1 DEF IntroInv, IntroTypes, Endings
<1>3. OneEnding'
  BY <1>2 DEF IntroInv, OneEnding
<1>4. FinishIsASkip' /\ SkipEndsTheIntro'
  BY <1>1 DEF IntroInv, IntroTypes, FinishIsASkip, SkipEndsTheIntro
<1> QED BY <1>2, <1>3, <1>4 DEF IntroInv

LEMMA FadeKeeps == ASSUME IntroInv, FadeDone PROVE IntroInv'
<1> DEFINE next == "cross" \in intro.fade /\ ~intro.dismissed
           finish == "finish" \in intro.fade
           n == intro.act + 1
<1>1. intro.fade # {} /\ intro \in [act : 1..5, timers : SUBSET ((1..5) \X TimerKinds),
        fade : SUBSET {"cross", "finish"}, dismissed : BOOLEAN, waiting : BOOLEAN, seen : BOOLEAN,
        started : Nat]
  BY DEF FadeDone, IntroInv, IntroTypes
<1>2. /\ intro'.fade = {} /\ intro'.dismissed = intro.dismissed
      /\ intro'.act = (IF next THEN n ELSE intro.act)
      /\ intro'.timers = (IF next THEN intro.timers \union TimersOf(n) ELSE intro.timers)
      /\ intro'.started = (IF finish THEN intro.started + 1 ELSE intro.started)
      /\ intro' = [act |-> intro'.act, timers |-> intro'.timers, fade |-> {},
                   dismissed |-> intro.dismissed, waiting |-> intro.waiting, seen |-> intro.seen,
                   started |-> intro'.started]
  BY <1>1 DEF FadeDone, RunScene
<1>3. next => /\ n \in 1..5 /\ n # 1 /\ Endings = {}
              /\ TimersOf(n) \subseteq (1..5) \X TimerKinds
              /\ {t \in TimersOf(n) : IsEnding(t)} = IF n = 5 THEN {} ELSE {<<n, "leave">>}
  <2> SUFFICES ASSUME next PROVE /\ n \in 1..5 /\ n # 1 /\ Endings = {}
                                 /\ TimersOf(n) \subseteq (1..5) \X TimerKinds
                                 /\ {t \in TimersOf(n) : IsEnding(t)} = IF n = 5 THEN {} ELSE {<<n, "leave">>}
    OBVIOUS
  <2>1. n \in 1..5 /\ n # 1 /\ Endings = {}
    BY <1>1 DEF IntroInv, OneEnding
  <2> HIDE DEF n
  <2> QED BY <2>1, TimersOfActs
<1> HIDE DEF next, n, finish
<1>4. IntroTypes'
  BY <1>1, <1>2, <1>3 DEF IntroTypes
<1>5. OneEnding'
  <2>1. CASE next
    <3>1. Endings' = IF n = 5 THEN {} ELSE {<<n, "leave">>}
      BY <1>2, <1>3, <2>1 DEF Endings
    <3> QED BY <1>2, <1>3, <2>1, <3>1 DEF OneEnding
  <2>2. CASE ~next
    <3>1. Endings' = Endings
      BY <1>2, <2>2 DEF Endings
    <3> QED BY <1>2, <2>2, <3>1 DEF IntroInv, OneEnding
  <2> QED BY <2>1, <2>2
<1>6. SkipEndsTheIntro'
  <2>1. intro.dismissed => intro'.timers = {}
    BY <1>1, <1>2 DEF IntroInv, SkipEndsTheIntro, next
  <2>2. intro'.started <= 1 /\ (intro'.started = 1 => intro.dismissed)
    BY <1>1, <1>2 DEF IntroInv, SkipEndsTheIntro, FinishIsASkip, finish
  <2> QED BY <1>2, <2>1, <2>2 DEF SkipEndsTheIntro
<1>7. FinishIsASkip'
  BY <1>2 DEF FinishIsASkip
<1> QED BY <1>4, <1>5, <1>6, <1>7 DEF IntroInv

LEMMA IntroInvariant == IntroSpec => []IntroInv
<1>1. IntroInv /\ [IntroNext]_introVars => IntroInv'
  <2> SUFFICES ASSUME IntroInv, [IntroNext]_introVars PROVE IntroInv'
    OBVIOUS
  <2>1. CASE UNCHANGED introVars
    BY <2>1 DEF introVars, IntroInv, IntroTypes, OneEnding, Endings, FinishIsASkip, SkipEndsTheIntro
  <2> QED BY <2>1, FireKeeps, SkipKeeps, FadeKeeps DEF IntroNext
<1> QED BY <1>1, IntroStarts, PTL DEF IntroSpec

LEMMA InvOneAct == IntroInv => SkipEndsTheIntro /\ OneActAtATime
<1> SUFFICES ASSUME IntroInv PROVE OneActAtATime
  BY DEF IntroInv
<1> DEFINE S == {t \in intro.timers : t[2] \in {"leave", "glitch"}}
<1>1. S \subseteq Endings
  BY DEF Endings, IsEnding
<1>2. S = {} \/ \E t : S = {t}
  BY <1>1 DEF IntroInv, OneEnding
<1>3. Cardinality(S) <= 1 /\ (S = {} => Cardinality(S) = 0) /\ Cardinality(S) \in Nat
  <2>1. CASE S = {}
    BY <2>1, FS_EmptySet
  <2>2. CASE \E t : S = {t}
    <3>1. PICK t : S = {t}
      BY <2>2
    <3>2. Cardinality({t}) = 1
      BY FS_Singleton
    <3> HIDE DEF S
    <3> QED BY <3>1, <3>2
  <2> QED BY <1>2, <2>1, <2>2
<1>4. "cross" \in intro.fade => S = {}
  BY <1>1 DEF IntroInv, OneEnding
<1> HIDE DEF S
<1>5. Cardinality(S) + (IF "cross" \in intro.fade THEN 1 ELSE 0) <= 1
  BY <1>3, <1>4
<1> QED BY <1>5 DEF OneActAtATime, S

(***************************************************************************)
(* The advisor, for any pillars, strategies and number of turns.           *)
(***************************************************************************)

Turn == [id : Nat, role : {"user", "system", "advisor"}, attached : BOOLEAN]
LeadStates == LeadEnds \union {"off", "waiting", "rejecting", "announcing"}

AdvisorTypes ==
  /\ dialogue \in [turns : Seq(Turn), strategy : Strategies] /\ under \in Strategies
  /\ user \in {"idle", "parsing", "dispatching", "replying", "announcing"}
  /\ leads \in [Pillars -> LeadStates]
  /\ notes \in [Notes -> [at : {"off", "generating", "announcing", "done"}, turn : Nat]]
  /\ handoffs \in [Pillars -> Seq(LeadEnds \union {"dispatching"})]
  /\ ids \in Nat /\ crossed \in BOOLEAN
  /\ composer \in [draft : BOOLEAN, submitting : BOOLEAN, toast : BOOLEAN, sent : Nat]

\* A turn is appended or replaced, never removed; while no note was crossed each stands at its
\* number, and a note that is announced is the last turn.
TurnsStand ==
  /\ Len(dialogue.turns) = ids /\ announced = 1..ids
  /\ ~crossed => \A i \in 1..ids : dialogue.turns[i].id = i
  /\ \A n \in Notes : notes[n].at = "announcing" =>
       notes[n].turn \in 1..ids /\ (~crossed => notes[n].turn = ids)

\* Leads are at work only while the turn is dispatched.
LeadsOfTheTurn ==
  /\ user # "dispatching" => AllLeadsSettled
  /\ user = "parsing" => \A p \in Pillars : leads[p] = "off"

\* The strategy cannot change between the dispatch and the reply.
StrategyHeld ==
  /\ user = "dispatching" => under = dialogue.strategy
  /\ OneStrategyPerTurn

\* A hand-off is opened by the dispatch and closed by the lead's answer.
HandoffOf(p) ==
  CASE leads[p] = "off" -> handoffs[p] = <<>>
    [] leads[p] = "waiting" -> handoffs[p] = <<"dispatching">>
    [] leads[p] \in {"rejecting", "announcing"} -> handoffs[p] = <<"dispatching", "rejected">>
    [] leads[p] \in LeadEnds ->
         handoffs[p] \in {<<>>, <<"dispatching">>, <<"dispatching", leads[p]>>}

AdvisorInv ==
  /\ AdvisorTypes /\ TurnsStand /\ LeadsOfTheTurn /\ StrategyHeld /\ ComposerBusyWithItsTurn
  /\ \A p \in Pillars : HandoffOf(p)

\* The transcript and the notes depend on nothing else.
transcriptVars == <<dialogue, notes, ids, announced, crossed>>
leadVars == <<leads, handoffs>>

LEMMA TranscriptIsLeftAlone ==
  ASSUME AdvisorInv, UNCHANGED transcriptVars PROVE TurnsStand'
BY DEF AdvisorInv, TurnsStand, transcriptVars

LEMMA LeadsAreLeftAlone ==
  ASSUME AdvisorInv, UNCHANGED leadVars
  PROVE  /\ \A p \in Pillars : HandoffOf(p)'
         /\ AllLeadsSettled' = AllLeadsSettled /\ AnyLeadSettled' = AnyLeadSettled
BY DEF AdvisorInv, HandoffOf, leadVars, AllLeadsSettled, AnyLeadSettled

----------------------------------------------------------------------------
(* A turn is appended.                                                     *)

LEMMA TurnAppended ==
  ASSUME AdvisorInv, NEW role \in {"user", "system", "advisor"}, AppendTurn(role)
  PROVE  /\ ids' = ids + 1 /\ ids' \in Nat /\ crossed' \in BOOLEAN
         /\ dialogue' \in [turns : Seq(Turn), strategy : Strategies]
         /\ dialogue'.strategy = dialogue.strategy
         /\ Len(dialogue'.turns) = ids' /\ announced' = 1..ids'
         /\ ~crossed' => /\ ~crossed /\ \A n \in Notes : notes[n].at # "announcing"
                         /\ \A i \in 1..ids' : dialogue'.turns[i].id = i
<1> DEFINE t == [id |-> ids + 1, role |-> role, attached |-> FALSE]
           ts == Append(dialogue.turns, t)
<1>1. /\ ids' = ids + 1 /\ announced' = announced \union {ids + 1}
      /\ dialogue' = [dialogue EXCEPT !.turns = ts]
      /\ crossed' = (crossed \/ \E n \in Notes : notes[n].at = "announcing")
  BY DEF AppendTurn
<1>2. /\ ids \in Nat /\ crossed \in BOOLEAN /\ dialogue.turns \in Seq(Turn) /\ t \in Turn
      /\ Len(dialogue.turns) = ids /\ announced = 1..ids /\ t.id = ids + 1
  BY DEF AdvisorInv, AdvisorTypes, TurnsStand, Turn
<1> HIDE DEF t
<1>3. /\ ts \in Seq(Turn) /\ Len(ts) = ids + 1 /\ ts[ids + 1] = t
      /\ \A i \in 1..ids : ts[i] = dialogue.turns[i]
  BY <1>2, AppendProperties
<1> HIDE DEF ts
<1>4. /\ dialogue' \in [turns : Seq(Turn), strategy : Strategies] /\ dialogue'.turns = ts
      /\ dialogue'.strategy = dialogue.strategy
  BY <1>1, <1>3 DEF AdvisorInv, AdvisorTypes
<1>5. announced' = 1..(ids + 1)
  BY <1>1, <1>2
<1>6. ASSUME ~crossed' PROVE /\ ~crossed /\ \A n \in Notes : notes[n].at # "announcing"
                             /\ \A i \in 1..(ids + 1) : ts[i].id = i
  <2>1. ~crossed /\ \A n \in Notes : notes[n].at # "announcing"
    BY <1>1, <1>6
  <2>2. \A i \in 1..ids : ts[i].id = i
    BY <1>3, <2>1 DEF AdvisorInv, TurnsStand
  <2> QED BY <1>2, <1>3, <2>1, <2>2
<1>7. crossed' \in BOOLEAN
  BY <1>1
<1> QED BY <1>1, <1>2, <1>3, <1>4, <1>5, <1>6, <1>7

\* A turn that is not a note leaves the notes where they are.
LEMMA TurnAppendedKeeps ==
  ASSUME AdvisorInv, NEW role \in {"user", "system", "advisor"}, AppendTurn(role), UNCHANGED notes
  PROVE  TurnsStand'
<1>1. ids \in Nat
  BY DEF AdvisorInv, AdvisorTypes
<1>2. \A n \in Notes : notes[n].at = "announcing" => notes[n].turn \in 1..(ids + 1)
  BY <1>1 DEF AdvisorInv, TurnsStand
<1> QED BY <1>2, TurnAppended DEF TurnsStand

----------------------------------------------------------------------------
(* The composer and the turn of the user.                                  *)

LEMMA ComposerKeeps == ASSUME AdvisorInv, TypeDraft \/ ToastFades PROVE AdvisorInv'
<1>1. /\ UNCHANGED <<dialogue, under, user, leads, notes, ids, announced, handoffs, crossed>>
      /\ composer' = [composer EXCEPT !.draft = TRUE] \/ composer' = [composer EXCEPT !.toast = FALSE]
  BY DEF TypeDraft, ToastFades
<1>2. AdvisorTypes' /\ composer'.submitting = composer.submitting
  BY <1>1 DEF AdvisorInv, AdvisorTypes
<1>3. TurnsStand' /\ \A p \in Pillars : HandoffOf(p)'
  BY <1>1, TranscriptIsLeftAlone, LeadsAreLeftAlone DEF transcriptVars, leadVars
<1>4. LeadsOfTheTurn' /\ StrategyHeld' /\ ComposerBusyWithItsTurn'
  BY <1>1, <1>2 DEF AdvisorInv, LeadsOfTheTurn, StrategyHeld, OneStrategyPerTurn, AllLeadsSettled,
     AnyLeadSettled, ComposerBusyWithItsTurn
<1> QED BY <1>2, <1>3, <1>4 DEF AdvisorInv

LEMMA ReceiveKeeps == ASSUME AdvisorInv, ReceiveUserTurn PROVE AdvisorInv'
<1>1. /\ composer' = [composer EXCEPT !.submitting = TRUE, !.sent = @ + 1]
      /\ user' = "parsing" /\ AppendTurn("user")
      /\ leads' = [p \in Pillars |-> "off"] /\ handoffs' = [p \in Pillars |-> <<>>]
      /\ UNCHANGED <<under, notes>>
  BY DEF ReceiveUserTurn
<1>2. AdvisorTypes' /\ composer'.submitting = TRUE
  <2>1. leads' \in [Pillars -> LeadStates]
    BY <1>1 DEF LeadStates
  <2>2. handoffs' \in [Pillars -> Seq(LeadEnds \union {"dispatching"})]
    BY <1>1
  <2>3. /\ composer' \in [draft : BOOLEAN, submitting : BOOLEAN, toast : BOOLEAN, sent : Nat]
        /\ composer'.submitting = TRUE
    <3> DEFINE k == composer.sent + 1
    <3>1. composer' = [composer EXCEPT !.submitting = TRUE, !.sent = k]
      BY <1>1
    <3>2. composer \in [draft : BOOLEAN, submitting : BOOLEAN, toast : BOOLEAN, sent : Nat] /\ k \in Nat
      BY DEF AdvisorInv, AdvisorTypes
    <3> HIDE DEF k
    <3> QED BY <3>1, <3>2
  <2> QED BY <1>1, <2>1, <2>2, <2>3, TurnAppended DEF AdvisorInv, AdvisorTypes
<1>3. TurnsStand'
  BY <1>1, TurnAppendedKeeps
<1>4. LeadsOfTheTurn' /\ \A p \in Pillars : HandoffOf(p)'
  BY <1>1 DEF LeadsOfTheTurn, AllLeadsSettled, HandoffOf
<1>5. StrategyHeld'
  BY <1>1 DEF StrategyHeld, OneStrategyPerTurn
<1>6. ComposerBusyWithItsTurn'
  BY <1>1, <1>2 DEF ComposerBusyWithItsTurn
<1> QED BY <1>2, <1>3, <1>4, <1>5, <1>6 DEF AdvisorInv

\* The turn ends, answered or not.
LEMMA TurnEndsKeeps == ASSUME AdvisorInv, ParseFails \/ ReplyAnnounced \/ ReplyFails PROVE AdvisorInv'
<1>1. /\ user \in {"parsing", "announcing", "replying"} /\ user' = "idle"
      /\ \/ composer' = [composer EXCEPT !.submitting = FALSE, !.toast = TRUE]
         \/ composer' = [composer EXCEPT !.submitting = FALSE, !.draft = FALSE]
      /\ UNCHANGED <<dialogue, under, leads, notes, ids, announced, handoffs, crossed>>
  BY DEF ParseFails, ReplyAnnounced, ReplyFails
<1>2. AdvisorTypes' /\ composer'.submitting = FALSE
  BY <1>1 DEF AdvisorInv, AdvisorTypes
<1>3. TurnsStand' /\ AllLeadsSettled' /\ \A p \in Pillars : HandoffOf(p)'
  BY <1>1, TranscriptIsLeftAlone, LeadsAreLeftAlone DEF transcriptVars, leadVars, AdvisorInv, LeadsOfTheTurn
<1>4. LeadsOfTheTurn' /\ StrategyHeld'
  BY <1>1, <1>3 DEF LeadsOfTheTurn, StrategyHeld, OneStrategyPerTurn
<1>5. ComposerBusyWithItsTurn'
  BY <1>1, <1>2 DEF ComposerBusyWithItsTurn
<1> QED BY <1>2, <1>3, <1>4, <1>5 DEF AdvisorInv

LEMMA ParsedKeeps == ASSUME AdvisorInv, IntentParsed PROVE AdvisorInv'
<1>1. user = "parsing" /\ UNCHANGED <<dialogue, notes, ids, announced, crossed, composer>>
  BY DEF IntentParsed
<1>2. TurnsStand'
  BY <1>1, TranscriptIsLeftAlone DEF transcriptVars
<1>3. CASE user' = "replying" /\ UNCHANGED <<leads, handoffs, under>>
  <2>1. AllLeadsSettled' /\ ~AnyLeadSettled' /\ \A p \in Pillars : HandoffOf(p)'
    BY <1>1, <1>3, LeadsAreLeftAlone DEF AdvisorInv, LeadsOfTheTurn, AllLeadsSettled, AnyLeadSettled,
       LeadEnds, leadVars
  <2>2. LeadsOfTheTurn' /\ StrategyHeld'
    BY <1>3, <2>1 DEF LeadsOfTheTurn, StrategyHeld, OneStrategyPerTurn
  <2>3. AdvisorTypes' /\ ComposerBusyWithItsTurn'
    BY <1>1, <1>3 DEF AdvisorInv, AdvisorTypes, ComposerBusyWithItsTurn
  <2> QED BY <1>2, <2>1, <2>2, <2>3 DEF AdvisorInv
<1>4. CASE /\ user' = "dispatching" /\ under' = dialogue.strategy
           /\ \E ps \in SUBSET Pillars \ {{}} : DispatchInternal(ps)
  <2>1. PICK ps \in SUBSET Pillars : DispatchInternal(ps)
    BY <1>4
  <2>2. leads' \in [Pillars -> LeadStates]
    BY <2>1 DEF DispatchInternal, LeadStates, LeadEnds
  <2>6. handoffs' \in [Pillars -> Seq(LeadEnds \union {"dispatching"})]
    <3>1. <<>> \in Seq(LeadEnds \union {"dispatching"})
          /\ <<"dispatching">> \in Seq(LeadEnds \union {"dispatching"})
      OBVIOUS
    <3> QED BY <2>1, <3>1 DEF DispatchInternal
  <2>3. ASSUME NEW p \in Pillars PROVE HandoffOf(p)'
    BY <2>1 DEF DispatchInternal, HandoffOf, LeadEnds
  <2>4. LeadsOfTheTurn' /\ StrategyHeld'
    BY <1>1, <1>4 DEF LeadsOfTheTurn, StrategyHeld, OneStrategyPerTurn
  <2>5. AdvisorTypes' /\ ComposerBusyWithItsTurn'
    BY <1>1, <1>4, <2>2, <2>6 DEF AdvisorInv, AdvisorTypes, ComposerBusyWithItsTurn
  <2> QED BY <1>2, <2>3, <2>4, <2>5 DEF AdvisorInv
<1> QED BY <1>3, <1>4 DEF IntentParsed

LEMMA LeadsDoneKeeps == ASSUME AdvisorInv, LeadsDone PROVE AdvisorInv'
<1>1. /\ user = "dispatching" /\ AllLeadsSettled /\ user' = "replying"
      /\ UNCHANGED <<dialogue, under, leads, notes, ids, announced, handoffs, crossed, composer>>
  BY DEF LeadsDone
<1>2. TurnsStand' /\ AllLeadsSettled' /\ \A p \in Pillars : HandoffOf(p)'
  BY <1>1, TranscriptIsLeftAlone, LeadsAreLeftAlone DEF transcriptVars, leadVars
<1>3. LeadsOfTheTurn' /\ StrategyHeld'
  BY <1>1, <1>2 DEF AdvisorInv, LeadsOfTheTurn, StrategyHeld, OneStrategyPerTurn
<1>4. AdvisorTypes' /\ ComposerBusyWithItsTurn'
  BY <1>1 DEF AdvisorInv, AdvisorTypes, ComposerBusyWithItsTurn
<1> QED BY <1>2, <1>3, <1>4 DEF AdvisorInv

LEMMA ReplyKeeps == ASSUME AdvisorInv, EmitAdvisorTurn PROVE AdvisorInv'
<1>1. /\ user = "replying" /\ user' = "announcing" /\ AppendTurn("advisor")
      /\ UNCHANGED <<under, leads, notes, handoffs, composer>>
  BY DEF EmitAdvisorTurn
<1>2. TurnsStand' /\ \A p \in Pillars : HandoffOf(p)'
  <2>1. TurnsStand'
    BY <1>1, TurnAppendedKeeps
  <2>2. UNCHANGED leadVars
    BY <1>1 DEF leadVars
  <2> QED BY <2>1, <2>2, LeadsAreLeftAlone
<1>3. LeadsOfTheTurn' /\ StrategyHeld'
  <2>1. dialogue'.strategy = dialogue.strategy /\ UNCHANGED under
    BY <1>1, TurnAppended
  <2>2. AllLeadsSettled' = AllLeadsSettled /\ AnyLeadSettled' = AnyLeadSettled
    BY <1>1 DEF AllLeadsSettled, AnyLeadSettled
  <2>3. AllLeadsSettled /\ (AnyLeadSettled => dialogue.strategy = under)
    BY <1>1 DEF AdvisorInv, LeadsOfTheTurn, StrategyHeld, OneStrategyPerTurn
  <2> QED BY <1>1, <2>1, <2>2, <2>3 DEF LeadsOfTheTurn, StrategyHeld, OneStrategyPerTurn
<1>4. AdvisorTypes' /\ ComposerBusyWithItsTurn'
  BY <1>1, TurnAppended DEF AdvisorInv, AdvisorTypes, ComposerBusyWithItsTurn
<1> QED BY <1>2, <1>3, <1>4 DEF AdvisorInv

----------------------------------------------------------------------------
(* The leads.                                                              *)

\* A step of one lead while the turn is dispatched.
LEMMA LeadStepKeeps ==
  ASSUME AdvisorInv, NEW p \in Pillars, leads[p] \in {"waiting", "rejecting", "announcing"},
         NEW next \in LeadStates \ {"off"}, leads' = [leads EXCEPT ![p] = next],
         NEW h, handoffs' = [handoffs EXCEPT ![p] = h],
         CASE next = "waiting" -> h = <<"dispatching">>
           [] next \in {"rejecting", "announcing"} -> h = <<"dispatching", "rejected">>
           [] next \in LeadEnds -> h \in {<<"dispatching">>, <<"dispatching", next>>},
         UNCHANGED <<under, user, notes, composer>>,
         UNCHANGED <<dialogue, ids, announced, crossed>> \/ AppendTurn("system")
  PROVE  AdvisorInv'
<1>1. user = "dispatching"
  BY DEF AdvisorInv, LeadsOfTheTurn, AllLeadsSettled, LeadEnds
<1>2. leads' \in [Pillars -> LeadStates]
  BY DEF AdvisorInv, AdvisorTypes
<1>7. handoffs' \in [Pillars -> Seq(LeadEnds \union {"dispatching"})]
  <2>1. h \in Seq(LeadEnds \union {"dispatching"})
    <3>1. /\ <<"dispatching">> \in Seq(LeadEnds \union {"dispatching"})
          /\ \A x \in LeadEnds : <<"dispatching", x>> \in Seq(LeadEnds \union {"dispatching"})
      OBVIOUS
    <3>2. "rejected" \in LeadEnds
      BY DEF LeadEnds
    <3>3. CASE next \in LeadEnds
      <4>1. h \in {<<"dispatching">>, <<"dispatching", next>>}
        BY <3>3 DEF LeadEnds
      <4> QED BY <3>1, <3>3, <4>1
    <3>4. CASE next \notin LeadEnds
      <4>1. h \in {<<"dispatching">>, <<"dispatching", "rejected">>}
        BY <3>4 DEF LeadStates
      <4> QED BY <3>1, <3>2, <4>1
    <3> QED BY <3>3, <3>4
  <2> QED BY <2>1 DEF AdvisorInv, AdvisorTypes
<1>3. ASSUME NEW q \in Pillars PROVE HandoffOf(q)'
  <2>1. CASE q = p
    <3>1. leads'[p] = next /\ handoffs'[p] = h
      BY DEF AdvisorInv, AdvisorTypes
    <3> QED BY <2>1, <3>1 DEF HandoffOf, LeadStates, LeadEnds
  <2>2. CASE q # p
    <3>1. leads'[q] = leads[q] /\ handoffs'[q] = handoffs[q]
      BY <2>2 DEF AdvisorInv, AdvisorTypes
    <3>2. HandoffOf(q)
      BY DEF AdvisorInv
    <3> QED BY <3>1, <3>2 DEF HandoffOf
  <2> QED BY <2>1, <2>2
<1>4. /\ TurnsStand' /\ dialogue' \in [turns : Seq(Turn), strategy : Strategies] /\ ids' \in Nat
      /\ crossed' \in BOOLEAN /\ dialogue'.strategy = dialogue.strategy
  <2>1. CASE UNCHANGED <<dialogue, ids, announced, crossed>>
    BY <2>1, TranscriptIsLeftAlone DEF transcriptVars, AdvisorInv, AdvisorTypes
  <2>2. CASE AppendTurn("system")
    BY <2>2, TurnAppended, TurnAppendedKeeps
  <2> QED BY <2>1, <2>2
<1>5. LeadsOfTheTurn' /\ StrategyHeld' /\ ComposerBusyWithItsTurn'
  BY <1>1, <1>4 DEF AdvisorInv, LeadsOfTheTurn, StrategyHeld, OneStrategyPerTurn, ComposerBusyWithItsTurn
<1>6. AdvisorTypes'
  BY <1>2, <1>4, <1>7 DEF AdvisorInv, AdvisorTypes
<1> QED BY <1>3, <1>4, <1>5, <1>6 DEF AdvisorInv

\* What the hand-off of a lead at work is.
LEMMA HandoffOfALeadAtWork ==
  ASSUME AdvisorInv, NEW p \in Pillars
  PROVE  /\ leads[p] = "waiting" => handoffs[p] = <<"dispatching">>
         /\ leads[p] \in {"rejecting", "announcing"} => handoffs[p] = <<"dispatching", "rejected">>
         /\ handoffs = [handoffs EXCEPT ![p] = handoffs[p]]
<1>1. HandoffOf(p)
  BY DEF AdvisorInv
<1>2. handoffs = [handoffs EXCEPT ![p] = handoffs[p]]
  BY DEF AdvisorInv, AdvisorTypes
<1> QED BY <1>1, <1>2 DEF HandoffOf, LeadEnds

LEMMA AnswerKeeps ==
  ASSUME AdvisorInv, NEW p \in Pillars, NEW s \in LeadEnds, LeadAnswers(p, s) PROVE AdvisorInv'
<1> DEFINE next == IF s = "rejected" THEN "rejecting" ELSE s
<1>1. /\ leads[p] = "waiting" /\ leads' = [leads EXCEPT ![p] = next]
      /\ handoffs' = [handoffs EXCEPT ![p] = Append(handoffs[p], s)]
      /\ UNCHANGED <<dialogue, under, user, notes, ids, announced, crossed, composer>>
  BY DEF LeadAnswers
<1>2. Append(handoffs[p], s) = <<"dispatching", s>>
  <2>1. handoffs[p] = <<"dispatching">>
    BY <1>1, HandoffOfALeadAtWork
  <2>2. Append(<<"dispatching">>, s) = <<"dispatching", s>>
    <3> DEFINE a == Append(<<"dispatching">>, s)
               b == <<"dispatching", s>>
               S == LeadEnds \union {"dispatching"}
    <3>1. <<"dispatching">> \in Seq(S) /\ s \in S /\ Len(<<"dispatching">>) = 1
      OBVIOUS
    <3>2. a \in Seq(S) /\ Len(a) = 2 /\ a[1] = "dispatching" /\ a[2] = s
      <4> HIDE DEF S
      <4> QED BY <3>1, AppendProperties
    <3>3. b \in Seq(S) /\ Len(b) = 2 /\ b[1] = "dispatching" /\ b[2] = s
      OBVIOUS
    <3> HIDE DEF a, b, S
    <3>4. \A i \in 1..Len(a) : a[i] = b[i]
      <4>1. \A i \in 1..2 : i = 1 \/ i = 2
        OBVIOUS
      <4> QED BY <3>2, <3>3, <4>1
    <3>5. a = b
      BY <3>2, <3>3, <3>4, SeqEqual
    <3> QED BY <3>5 DEF a, b
  <2> QED BY <2>1, <2>2
<1>3. next \in LeadStates \ {"off"}
  BY DEF LeadStates, LeadEnds
<1>4. CASE s = "rejected"
  BY <1>1, <1>2, <1>3, <1>4, LeadStepKeeps DEF LeadEnds
<1>5. CASE s # "rejected"
  BY <1>1, <1>2, <1>3, <1>5, LeadStepKeeps DEF LeadEnds
<1> QED BY <1>4, <1>5

LEMMA OtherLeadStepsKeep ==
  ASSUME AdvisorInv, NEW p \in Pillars,
         WrapDispatchError(p) \/ EmitSystemRejectTurn(p) \/ RejectAnnounced(p)
  PROVE  AdvisorInv'
<1>1. UNCHANGED handoffs /\ UNCHANGED <<under, user, notes, composer>>
  BY DEF WrapDispatchError, EmitSystemRejectTurn, RejectAnnounced
<1>2. handoffs' = [handoffs EXCEPT ![p] = handoffs[p]]
  BY <1>1, HandoffOfALeadAtWork
<1>3. CASE WrapDispatchError(p) \/ RejectAnnounced(p)
  <2>1. /\ leads[p] \in {"waiting", "rejecting", "announcing"}
        /\ leads' = [leads EXCEPT ![p] = "rejected"]
        /\ UNCHANGED <<dialogue, ids, announced, crossed>>
    BY <1>3 DEF WrapDispatchError, RejectAnnounced
  <2>2. handoffs[p] \in {<<"dispatching">>, <<"dispatching", "rejected">>}
    BY <2>1, HandoffOfALeadAtWork
  <2> QED BY <1>1, <1>2, <2>1, <2>2, LeadStepKeeps DEF LeadStates, LeadEnds
<1>4. CASE EmitSystemRejectTurn(p)
  <2>1. leads[p] = "rejecting" /\ leads' = [leads EXCEPT ![p] = "announcing"] /\ AppendTurn("system")
    BY <1>4 DEF EmitSystemRejectTurn
  <2>2. handoffs[p] = <<"dispatching", "rejected">>
    BY <2>1, HandoffOfALeadAtWork
  <2> QED BY <1>1, <1>2, <2>1, <2>2, LeadStepKeeps DEF LeadStates, LeadEnds
<1> QED BY <1>3, <1>4

----------------------------------------------------------------------------
(* The notes and the selector.                                             *)

\* A step of a note, which touches neither the user's turn nor its leads.
LEMMA NoteStepKeeps ==
  ASSUME AdvisorInv, TurnsStand', UNCHANGED <<under, user, leads, handoffs, composer>>,
         notes' \in [Notes -> [at : {"off", "generating", "announcing", "done"}, turn : Nat]],
         dialogue' \in [turns : Seq(Turn), strategy : Strategies],
         dialogue'.strategy = dialogue.strategy, ids' \in Nat, crossed' \in BOOLEAN
  PROVE  AdvisorInv'
<1>1. AdvisorTypes'
  BY DEF AdvisorInv, AdvisorTypes
<1>2. \A p \in Pillars : HandoffOf(p)'
  BY LeadsAreLeftAlone DEF leadVars
<1>3. LeadsOfTheTurn' /\ StrategyHeld' /\ ComposerBusyWithItsTurn'
  BY DEF AdvisorInv, LeadsOfTheTurn, StrategyHeld, OneStrategyPerTurn, AllLeadsSettled,
     AnyLeadSettled, ComposerBusyWithItsTurn
<1> QED BY <1>1, <1>2, <1>3 DEF AdvisorInv

LEMMA StartNoteKeeps == ASSUME AdvisorInv, NEW n \in Notes, StartNote(n) PROVE AdvisorInv'
<1>1. /\ notes' = [notes EXCEPT ![n].at = "generating"]
      /\ UNCHANGED <<dialogue, under, user, leads, ids, announced, handoffs, crossed, composer>>
  BY DEF StartNote
<1>2. /\ notes' \in [Notes -> [at : {"off", "generating", "announcing", "done"}, turn : Nat]]
      /\ \A m \in Notes : notes'[m] = notes[m] \/ notes'[m].at = "generating"
  BY <1>1 DEF AdvisorInv, AdvisorTypes
<1>3. TurnsStand'
  BY <1>1, <1>2 DEF AdvisorInv, TurnsStand
<1> QED BY <1>1, <1>2, <1>3, NoteStepKeeps DEF AdvisorInv, AdvisorTypes

LEMMA EmitNoteKeeps == ASSUME AdvisorInv, NEW n \in Notes, EmitNote(n) PROVE AdvisorInv'
<1>1. /\ notes' = [notes EXCEPT ![n] = [at |-> "announcing", turn |-> ids + 1]]
      /\ AppendTurn("advisor") /\ UNCHANGED <<under, user, leads, handoffs, composer>>
  BY DEF EmitNote
<1>2. ids \in Nat
  BY DEF AdvisorInv, AdvisorTypes
<1>3. /\ notes' \in [Notes -> [at : {"off", "generating", "announcing", "done"}, turn : Nat]]
      /\ \A m \in Notes : notes'[m] = notes[m] \/ notes'[m].turn = ids + 1
  BY <1>1, <1>2 DEF AdvisorInv, AdvisorTypes
<1>4. TurnsStand'
  <2>1. ASSUME NEW m \in Notes, notes'[m].at = "announcing"
        PROVE  notes'[m].turn \in 1..(ids + 1) /\ (~crossed' => notes'[m].turn = ids + 1)
    <3>1. CASE notes'[m] = notes[m]
      BY <1>1, <1>2, <2>1, <3>1, TurnAppended DEF AdvisorInv, TurnsStand
    <3>2. CASE notes'[m].turn = ids + 1
      BY <1>2, <3>2
    <3> QED BY <1>3, <3>1, <3>2
  <2> QED BY <1>1, <2>1, TurnAppended DEF TurnsStand
<1> QED BY <1>1, <1>3, <1>4, TurnAppended, NoteStepKeeps

LEMMA NoteAnnouncedKeeps == ASSUME AdvisorInv, NEW n \in Notes, NoteAnnounced(n) PROVE AdvisorInv'
<1> DEFINE ts == dialogue.turns
           front == SubSeq(ts, 1, Len(ts) - 1)
           new == Enriched(n)
<1>1. /\ notes[n].at = "announcing" /\ notes' = [notes EXCEPT ![n].at = "done"]
      /\ dialogue' = [dialogue EXCEPT !.turns = Append(front, new)]
      /\ UNCHANGED <<under, user, leads, ids, announced, handoffs, crossed, composer>>
  BY DEF NoteAnnounced, ReplaceLast
<1>2. /\ ids \in Nat /\ ts \in Seq(Turn) /\ Len(ts) = ids /\ new \in Turn
      /\ new.id = notes[n].turn /\ notes[n].turn \in 1..ids
      /\ ~crossed => notes[n].turn = ids /\ \A i \in 1..ids : ts[i].id = i
  BY <1>1 DEF AdvisorInv, AdvisorTypes, TurnsStand, Enriched, Turn
<1> HIDE DEF ts, new
<1>3. /\ front \in Seq(Turn) /\ Len(front) = ids - 1
      /\ \A i \in 1..(ids - 1) : front[i] = ts[i]
  BY <1>2, SubSeqProperties
<1> HIDE DEF front
<1>4. /\ Append(front, new) \in Seq(Turn) /\ Len(Append(front, new)) = ids
      /\ Append(front, new)[ids] = new
      /\ \A i \in 1..(ids - 1) : Append(front, new)[i] = ts[i]
  BY <1>2, <1>3, AppendProperties
<1>5. /\ notes' \in [Notes -> [at : {"off", "generating", "announcing", "done"}, turn : Nat]]
      /\ \A m \in Notes : notes'[m] = notes[m] \/ notes'[m].at = "done"
  BY <1>1 DEF AdvisorInv, AdvisorTypes
<1>6. /\ dialogue' \in [turns : Seq(Turn), strategy : Strategies]
      /\ dialogue'.strategy = dialogue.strategy /\ dialogue'.turns = Append(front, new)
  BY <1>1, <1>4 DEF AdvisorInv, AdvisorTypes
<1>7. ~crossed => \A i \in 1..ids : Append(front, new)[i].id = i
  BY <1>2, <1>4
<1>8. TurnsStand'
  BY <1>1, <1>4, <1>5, <1>6, <1>7 DEF AdvisorInv, TurnsStand
<1> QED BY <1>1, <1>5, <1>6, <1>8, NoteStepKeeps DEF AdvisorInv, AdvisorTypes

LEMMA ToggleKeeps ==
  ASSUME AdvisorInv, NEW s \in Strategies, ToggleModelStrategy(s) PROVE AdvisorInv'
<1>1. /\ ~composer.submitting /\ dialogue' = [dialogue EXCEPT !.strategy = s]
      /\ UNCHANGED <<under, user, leads, notes, ids, announced, handoffs, crossed, composer>>
  BY DEF ToggleModelStrategy
<1>2. user = "idle"
  BY <1>1 DEF AdvisorInv, ComposerBusyWithItsTurn
<1>3. AdvisorTypes' /\ dialogue'.turns = dialogue.turns
  BY <1>1 DEF AdvisorInv, AdvisorTypes
<1>4. TurnsStand'
  BY <1>1, <1>3 DEF AdvisorInv, TurnsStand
<1>5. AllLeadsSettled' /\ \A p \in Pillars : HandoffOf(p)'
  BY <1>1, <1>2, LeadsAreLeftAlone DEF leadVars, AdvisorInv, LeadsOfTheTurn
<1>6. LeadsOfTheTurn' /\ StrategyHeld' /\ ComposerBusyWithItsTurn'
  BY <1>1, <1>2, <1>5 DEF AdvisorInv, LeadsOfTheTurn, StrategyHeld, OneStrategyPerTurn,
     ComposerBusyWithItsTurn
<1> QED BY <1>3, <1>4, <1>5, <1>6 DEF AdvisorInv

----------------------------------------------------------------------------

LEMMA AdvisorStarts == AdvisorInit => AdvisorInv
<1> SUFFICES ASSUME AdvisorInit PROVE AdvisorInv
  OBVIOUS
<1>1. /\ dialogue \in [turns : {<<>>}, strategy : Strategies] /\ under = dialogue.strategy
      /\ user = "idle" /\ leads = [p \in Pillars |-> "off"]
      /\ notes = [n \in Notes |-> [at |-> "off", turn |-> 0]]
      /\ ids = 0 /\ announced = {} /\ handoffs = [p \in Pillars |-> <<>>] /\ crossed = FALSE
      /\ composer = [draft |-> FALSE, submitting |-> FALSE, toast |-> FALSE, sent |-> 0]
  BY DEF AdvisorInit
<1>2. dialogue.turns = <<>> /\ dialogue \in [turns : Seq(Turn), strategy : Strategies]
  <2>1. <<>> \in Seq(Turn)
    OBVIOUS
  <2> QED BY <1>1, <2>1
<1>3. AdvisorTypes
  <2>1. leads \in [Pillars -> LeadStates] /\ handoffs \in [Pillars -> Seq(LeadEnds \union {"dispatching"})]
    BY <1>1 DEF LeadStates
  <2>2. under \in Strategies
    BY <1>1
  <2>3. notes \in [Notes -> [at : {"off", "generating", "announcing", "done"}, turn : Nat]]
    BY <1>1
  <2> QED BY <1>1, <1>2, <2>1, <2>2, <2>3 DEF AdvisorTypes
<1>4. TurnsStand
  BY <1>1, <1>2 DEF TurnsStand
<1>5. LeadsOfTheTurn /\ StrategyHeld /\ ComposerBusyWithItsTurn
  BY <1>1 DEF LeadsOfTheTurn, StrategyHeld, OneStrategyPerTurn, AllLeadsSettled, ComposerBusyWithItsTurn
<1>6. \A p \in Pillars : HandoffOf(p)
  BY <1>1 DEF HandoffOf
<1> QED BY <1>3, <1>4, <1>5, <1>6 DEF AdvisorInv

LEMMA AdvisorKeeps == AdvisorInv /\ [AdvisorNext]_advisorVars => AdvisorInv'
<1> SUFFICES ASSUME AdvisorInv, [AdvisorNext]_advisorVars PROVE AdvisorInv'
  OBVIOUS
<1>1. CASE TypeDraft \/ ToastFades \/ ReceiveUserTurn \/ ParseFails \/ IntentParsed
  BY <1>1, ComposerKeeps, ReceiveKeeps, TurnEndsKeeps, ParsedKeeps
<1>2. CASE LeadsDone \/ EmitAdvisorTurn \/ ReplyAnnounced \/ ReplyFails
  BY <1>2, LeadsDoneKeeps, ReplyKeeps, TurnEndsKeeps
<1>3. CASE \E p \in Pillars : \/ WrapDispatchError(p) \/ EmitSystemRejectTurn(p) \/ RejectAnnounced(p)
                              \/ \E s \in LeadEnds : LeadAnswers(p, s)
  BY <1>3, OtherLeadStepsKeep, AnswerKeeps
<1>4. CASE \E n \in Notes : StartNote(n) \/ EmitNote(n) \/ NoteAnnounced(n)
  BY <1>4, StartNoteKeeps, EmitNoteKeeps, NoteAnnouncedKeeps
<1>5. CASE \E s \in Strategies : ToggleModelStrategy(s)
  BY <1>5, ToggleKeeps
<1>6. CASE UNCHANGED advisorVars
  <2>1. UNCHANGED <<dialogue, under, user, leads, notes, ids, announced, handoffs, crossed, composer>>
    BY <1>6 DEF advisorVars
  <2> QED BY <2>1, NoteStepKeeps, TranscriptIsLeftAlone DEF AdvisorInv, AdvisorTypes, transcriptVars
<1> QED BY <1>1, <1>2, <1>3, <1>4, <1>5, <1>6 DEF AdvisorNext

LEMMA AdvisorInvariant == AdvisorSpec => []AdvisorInv
<1> QED BY AdvisorStarts, AdvisorKeeps, PTL DEF AdvisorSpec

\* What the advisor keeps in order follows.
LEMMA InvKeepsTurns ==
  AdvisorInv => /\ TranscriptKeepsTurns /\ OneStrategyPerTurn /\ RepliesAfterTheLeads
                /\ ComposerBusyWithItsTurn
<1> SUFFICES ASSUME AdvisorInv
             PROVE  TranscriptKeepsTurns /\ RepliesAfterTheLeads
  BY DEF AdvisorInv, StrategyHeld
<1>1. ASSUME ~crossed PROVE TurnIds = announced /\ Cardinality(TurnIds) = Len(dialogue.turns)
  <2>1. /\ ids \in Nat /\ DOMAIN dialogue.turns = 1..ids /\ announced = 1..ids
        /\ Len(dialogue.turns) = ids /\ \A i \in 1..ids : dialogue.turns[i].id = i
    BY <1>1 DEF AdvisorInv, AdvisorTypes, TurnsStand
  <2>2. TurnIds = 1..ids
    BY <2>1 DEF TurnIds
  <2>3. Cardinality(1..ids) = ids
    BY <2>1, FS_Interval
  <2> QED BY <2>1, <2>2, <2>3
<1>2. ASSUME NEW p \in Pillars
      PROVE  /\ Len(handoffs[p]) <= 2
             /\ Len(handoffs[p]) = 2 /\ leads[p] \in LeadEnds => handoffs[p][2] = leads[p]
  <2>1. HandoffOf(p) /\ leads[p] \in LeadStates
    BY DEF AdvisorInv, AdvisorTypes
  <2>2. \A x \in LeadEnds : LET h == <<"dispatching", x>> IN Len(h) = 2 /\ h[2] = x
    OBVIOUS
  <2>3. Len(<<>>) = 0 /\ Len(<<"dispatching">>) = 1
    OBVIOUS
  <2>4. CASE leads[p] \in LeadEnds
    <3>1. handoffs[p] \in {<<>>, <<"dispatching">>, <<"dispatching", leads[p]>>}
      BY <2>1, <2>4 DEF HandoffOf, LeadEnds
    <3>2. CASE handoffs[p] \in {<<>>, <<"dispatching">>}
      <4>1. Len(handoffs[p]) \in {0, 1}
        BY <2>3, <3>2, Zenon
      <4>2. Len(handoffs[p]) <= 2 /\ Len(handoffs[p]) # 2
        <5> DEFINE k == Len(handoffs[p])
        <5>1. k \in {0, 1}
          BY <4>1
        <5> HIDE DEF k
        <5>2. k <= 2 /\ k # 2
          BY <5>1
        <5> QED BY <5>2 DEF k
      <4> QED BY <4>2
    <3>3. CASE handoffs[p] = <<"dispatching", leads[p]>>
      BY <2>2, <2>4, <3>3
    <3> QED BY <3>1, <3>2, <3>3
  <2>5. CASE leads[p] \notin LeadEnds
    <3>1. handoffs[p] \in {<<>>, <<"dispatching">>, <<"dispatching", "rejected">>}
      BY <2>1, <2>5 DEF HandoffOf, LeadStates
    <3>2. Len(<<"dispatching", "rejected">>) = 2
      OBVIOUS
    <3>3. CASE handoffs[p] \in {<<>>, <<"dispatching">>}
      <4>1. Len(handoffs[p]) \in {0, 1}
        BY <2>3, <3>3, Zenon
      <4>2. Len(handoffs[p]) <= 2 /\ Len(handoffs[p]) # 2
        <5> DEFINE k == Len(handoffs[p])
        <5>1. k \in {0, 1}
          BY <4>1
        <5> HIDE DEF k
        <5>2. k <= 2 /\ k # 2
          BY <5>1
        <5> QED BY <5>2 DEF k
      <4> QED BY <4>2
    <3>4. CASE handoffs[p] = <<"dispatching", "rejected">>
      BY <2>5, <3>2, <3>4
    <3> QED BY <3>1, <3>3, <3>4
  <2> QED BY <2>4, <2>5
<1>3. user \in {"replying", "announcing"} => \A p \in Pillars : leads[p] \in LeadEnds \union {"off"}
  BY DEF AdvisorInv, LeadsOfTheTurn, AllLeadsSettled
<1> QED BY <1>1, <1>2, <1>3 DEF TranscriptKeepsTurns, RepliesAfterTheLeads

(***************************************************************************)
(* The intro, the advisor and the event log together.                      *)
(***************************************************************************)

\* The intro plays one act at a time and starts the village once, however it is skipped; the
\* transcript keeps what it announced, a turn is answered after its leads, under one strategy;
\* and a client reads events as they were written, over replays, tails and lost connections
\* (IntroNarrativeScene; apollo.ts and AdvisorChat; sse_stream.py).
THEOREM OrderIsKept == IntroSpec /\ AdvisorSpec /\ StreamSpec => []KeptInOrder
<1>1. IntroInv /\ AdvisorInv /\ StreamInv => KeptInOrder
  BY InvOneAct, InvKeepsTurns, InvReadsInOrder DEF KeptInOrder
<1> QED BY <1>1, IntroInvariant, AdvisorInvariant, StreamInvariant, PTL

----------------------------------------------------------------------------
(***************************************************************************)
(* Tiers: the store and the pricing page.                                  *)
(***************************************************************************)

PricingPages == [open : BOOLEAN, plan : AnyTier \cup {NoPlan}, authed : BOOLEAN, version : Nat,
                 subscribing : AnyTier \cup {NoPlan}, notice : {"none", "failed", "already free"}]

TierStores == [tier : AnyTier \cup {Free}, authed : BOOLEAN, loading : BOOLEAN,
               age : {"never", "fresh", "old"}, error : BOOLEAN]

TiersTypes ==
  /\ account \in [plan : AnyTier \cup {NoPlan}, status : {"active", "canceled"},
                  signedIn : BOOLEAN, version : Nat]
  /\ tierStore \in TierStores
  /\ refreshes \in Nat
  /\ answered \in [tier : AnyTier \cup {Free}, version : Nat]
  /\ pricing \in PricingPages
  /\ checkouts \in [AnyTier -> Nat]

\* The types and the three promises; they need nothing else to be inductive.
TiersInv == TiersTypes /\ LoadingIsOneRequest /\ TierOfTheLastAnswer /\ SpinnerHasItsCheckout

LEMMA TiersStart == TiersInit => TiersInv
<1> SUFFICES ASSUME TiersInit PROVE TiersInv
  OBVIOUS
<1>1. TiersTypes
  BY DEF TiersInit, TiersTypes, StoreAtLoad, NoAnswer, PricingClosed, PricingPages, TierStores, NoCheckouts
<1>2. LoadingIsOneRequest /\ TierOfTheLastAnswer /\ SpinnerHasItsCheckout
  BY DEF TiersInit, StoreAtLoad, NoAnswer, PricingClosed, LoadingIsOneRequest,
         TierOfTheLastAnswer, SpinnerHasItsCheckout
<1> QED BY <1>1, <1>2 DEF TiersInv

LEMMA LeavingKeeps == ASSUME TiersInv, DocumentLeft PROVE TiersInv'
<1> USE DEF TiersInv
<1>1. TiersTypes'
  BY DEF DocumentLeft, TiersTypes, StoreAtLoad, NoAnswer, PricingClosed, PricingPages, TierStores, NoCheckouts
<1>2. (LoadingIsOneRequest /\ TierOfTheLastAnswer /\ SpinnerHasItsCheckout)'
  BY DEF DocumentLeft, StoreAtLoad, NoAnswer, PricingClosed, LoadingIsOneRequest,
         TierOfTheLastAnswer, SpinnerHasItsCheckout
<1> QED BY <1>1, <1>2

LEMMA RefreshingKeeps == ASSUME TiersInv, MayRefresh, Refreshing PROVE TiersInv'
<1> USE DEF TiersInv
<1>0. tierStore' = [tierStore EXCEPT !.loading = TRUE, !.error = FALSE] /\ tierStore \in TierStores
  BY DEF Refreshing, TiersTypes
<1>3. tierStore' \in TierStores /\ tierStore'.loading /\ tierStore'.tier = tierStore.tier
  BY <1>0 DEF TierStores
<1>1. TiersTypes'
  BY <1>3 DEF Refreshing, TiersTypes
<1>2. LoadingIsOneRequest' /\ TierOfTheLastAnswer' /\ SpinnerHasItsCheckout'
  BY <1>3 DEF MayRefresh, Refreshing, TiersTypes, LoadingIsOneRequest, TierOfTheLastAnswer, SpinnerHasItsCheckout
<1> QED BY <1>1, <1>2

LEMMA TiersStep == TiersInv /\ [TiersNext]_tiersVars => TiersInv'
<1> SUFFICES ASSUME TiersInv, [TiersNext]_tiersVars PROVE TiersInv'
  OBVIOUS
<1> USE DEF TiersInv
<1>1. CASE AccountChanges
  BY <1>1 DEF AccountChanges, TiersTypes, LoadingIsOneRequest, TierOfTheLastAnswer, SpinnerHasItsCheckout
<1>2. CASE GameStarts \/ SurfaceMounts
  BY <1>2, RefreshingKeeps DEF GameStarts, SurfaceMounts
<1>3. CASE RefreshAnswers
  <2>1. TiersTypes'
    BY <1>3 DEF RefreshAnswers, TierOf, TiersTypes, TierStores
  <2>2. LoadingIsOneRequest'
    BY <1>3 DEF RefreshAnswers, TiersTypes, LoadingIsOneRequest
  <2>3. TierOfTheLastAnswer'
    BY <1>3 DEF RefreshAnswers, TierOf, TierOfTheLastAnswer
  <2>4. SpinnerHasItsCheckout'
    BY <1>3 DEF RefreshAnswers, SpinnerHasItsCheckout
  <2> QED BY <2>1, <2>2, <2>3, <2>4
<1>4. CASE RefreshFails
  <2>1. tierStore' = Failed(tierStore) /\ tierStore \in TierStores
    BY <1>4 DEF RefreshFails, TiersTypes
  <2>2. tierStore' \in TierStores /\ ~tierStore'.loading /\ tierStore'.tier = tierStore.tier
    BY <2>1 DEF TierStores, Failed
  <2>3. TiersTypes'
    BY <1>4, <2>2 DEF RefreshFails, TiersTypes
  <2>4. LoadingIsOneRequest' /\ TierOfTheLastAnswer' /\ SpinnerHasItsCheckout'
    BY <1>4, <2>2 DEF RefreshFails, TiersTypes, LoadingIsOneRequest, TierOfTheLastAnswer, SpinnerHasItsCheckout
  <2> QED BY <2>3, <2>4
<1>5. CASE TtlPasses
  BY <1>5 DEF TtlPasses, TiersTypes, TierStores, LoadingIsOneRequest, TierOfTheLastAnswer, SpinnerHasItsCheckout
<1>6. CASE OpenPricing
  <2>1. pricing' \in PricingPages /\ pricing'.subscribing = NoPlan
    <3> DEFINE made(authed, version, shown) ==
                 [PricingClosed EXCEPT !.open = TRUE, !.authed = authed, !.version = version, !.plan = shown]
    <3>1. \A authed \in BOOLEAN, version \in Nat, shown \in AnyTier \cup {NoPlan} :
            /\ made(authed, version, shown) \in PricingPages
            /\ made(authed, version, shown).subscribing = NoPlan
      BY DEF PricingClosed, PricingPages
    <3>2. \A authed \in BOOLEAN :
            /\ [PricingClosed EXCEPT !.open = TRUE, !.authed = authed] \in PricingPages
            /\ [PricingClosed EXCEPT !.open = TRUE, !.authed = authed].subscribing = NoPlan
      BY DEF PricingClosed, PricingPages
    <3>3. /\ account.signedIn \in BOOLEAN /\ account.version \in Nat
          /\ (IF account.signedIn THEN CurrentTier(account.plan, account.status) ELSE NoPlan)
               \in AnyTier \cup {NoPlan}
      BY DEF TiersTypes, CurrentTier
    <3>4. \/ pricing' = made(account.signedIn, account.version,
                             IF account.signedIn THEN CurrentTier(account.plan, account.status) ELSE NoPlan)
          \/ \E authed \in BOOLEAN : pricing' = [PricingClosed EXCEPT !.open = TRUE, !.authed = authed]
      BY <1>6 DEF OpenPricing
    <3> DEFINE current == IF account.signedIn THEN CurrentTier(account.plan, account.status) ELSE NoPlan
    <3>5. CASE pricing' = made(account.signedIn, account.version, current)
      <4>1. current \in AnyTier \cup {NoPlan}
        BY <3>3
      <4> HIDE DEF made, current
      <4> QED BY <3>1, <3>3, <3>5, <4>1
    <3>6. CASE \E authed \in BOOLEAN : pricing' = [PricingClosed EXCEPT !.open = TRUE, !.authed = authed]
      <4>1. PICK authed \in BOOLEAN : pricing' = [PricingClosed EXCEPT !.open = TRUE, !.authed = authed]
        BY <3>6
      <4> QED BY <3>2, <4>1
    <3> HIDE DEF made
    <3> QED BY <3>4, <3>5, <3>6
  <2> QED
    BY <1>6, <2>1 DEF OpenPricing, TiersTypes, LoadingIsOneRequest, TierOfTheLastAnswer, SpinnerHasItsCheckout
<1>7. CASE ClosePricing
  BY <1>7 DEF ClosePricing, PricingClosed, PricingPages, TierStores, NoCheckouts, TiersTypes,
              LoadingIsOneRequest, TierOfTheLastAnswer, SpinnerHasItsCheckout
<1>8. CASE HandleFreeCta
  <2>1. CASE ~pricing.authed
    BY <1>8, <2>1, LeavingKeeps DEF HandleFreeCta
  <2>2. CASE pricing.authed
    <3>1. /\ pricing' = [pricing EXCEPT !.notice = "already free"]
          /\ UNCHANGED <<account, tierStore, refreshes, answered, checkouts, orphans>>
      BY <1>8, <2>2 DEF HandleFreeCta
    <3>2. pricing' \in PricingPages /\ pricing'.subscribing = pricing.subscribing
      <4>1. pricing \in PricingPages
        BY DEF TiersTypes
      <4> QED BY <3>1, <4>1 DEF PricingPages
    <3>3. TiersTypes'
      BY <3>1, <3>2 DEF TiersTypes
    <3> QED BY <3>1, <3>2, <3>3 DEF LoadingIsOneRequest, TierOfTheLastAnswer, SpinnerHasItsCheckout
  <2> QED BY <2>1, <2>2
<1>9. CASE CheckoutAnswers
  BY <1>9, LeavingKeeps DEF CheckoutAnswers
<1>10. CASE OrphanFails
  BY <1>10 DEF OrphanFails, TiersTypes, LoadingIsOneRequest, TierOfTheLastAnswer, SpinnerHasItsCheckout
<1>11. ASSUME NEW tier \in AnyTier, HandleSubscribe(tier) PROVE TiersInv'
  <2>1. CASE ~pricing.authed
    BY <1>11, <2>1, LeavingKeeps DEF HandleSubscribe
  <2>2. CASE pricing.authed
    <3>1. /\ pricing' = [pricing EXCEPT !.subscribing = tier, !.notice = "none"]
          /\ checkouts' = [checkouts EXCEPT ![tier] = @ + 1]
          /\ UNCHANGED <<account, tierStore, refreshes, answered>>
      BY <1>11, <2>2 DEF HandleSubscribe
    <3>2. pricing' \in PricingPages /\ pricing'.subscribing = tier
      <4>1. pricing \in PricingPages
        BY DEF TiersTypes
      <4> QED BY <3>1, <4>1 DEF PricingPages
    <3>3. checkouts' \in [AnyTier -> Nat] /\ checkouts'[tier] > 0
      <4>1. checkouts \in [AnyTier -> Nat]
        BY DEF TiersTypes
      <4> QED BY <3>1, <4>1
    <3>4. TiersTypes'
      BY <3>1, <3>2, <3>3 DEF TiersTypes
    <3> QED BY <3>1, <3>2, <3>3, <3>4 DEF LoadingIsOneRequest, TierOfTheLastAnswer, SpinnerHasItsCheckout
  <2> QED BY <2>1, <2>2
<1>12. ASSUME NEW tier \in AnyTier, CheckoutFails(tier) PROVE TiersInv'
  <2>1. pricing' \in PricingPages /\ pricing'.subscribing = NoPlan
    <3>1. pricing \in PricingPages /\ pricing' = [pricing EXCEPT !.subscribing = NoPlan, !.notice = "failed"]
      BY <1>12 DEF TiersTypes, CheckoutFails, CheckoutOver
    <3> QED BY <3>1 DEF PricingPages
  <2>2. checkouts' \in [AnyTier -> Nat]
    <3>1. checkouts \in [AnyTier -> Nat] /\ checkouts[tier] - 1 \in Nat
      BY <1>12 DEF TiersTypes, CheckoutFails
    <3> QED BY <1>12, <3>1 DEF CheckoutFails
  <2>3. TiersTypes'
    BY <1>12, <2>1, <2>2 DEF CheckoutFails, TiersTypes
  <2> QED
    BY <1>12, <2>1, <2>3 DEF CheckoutFails, LoadingIsOneRequest, TierOfTheLastAnswer, SpinnerHasItsCheckout
<1>13. CASE UNCHANGED tiersVars
  BY <1>13 DEF tiersVars, TiersTypes, LoadingIsOneRequest, TierOfTheLastAnswer, SpinnerHasItsCheckout
<1> QED
  BY <1>1, <1>2, <1>3, <1>4, <1>5, <1>6, <1>7, <1>8, <1>9, <1>10, <1>11, <1>12, <1>13 DEF TiersNext

LEMMA TiersAlways == TiersSpec => []TiersInv
BY TiersStart, TiersStep, PTL DEF TiersSpec

(***************************************************************************)
(* The invoices of the transactions table.                                 *)
(***************************************************************************)

InvoicesInv ==
  /\ invoice \in [downloading : Purchases \cup {NoPurchase}, failed : Purchases \cup {NoPurchase}]
  /\ pdfs \in [Purchases -> Nat]
  /\ \A p \in Purchases : invoice.downloading = p => pdfs[p] > 0

LEMMA InvoicesStep == InvoicesInv /\ [InvoicesNext]_invoiceVars => InvoicesInv'
<1> SUFFICES ASSUME InvoicesInv, [InvoicesNext]_invoiceVars PROVE InvoicesInv'
  OBVIOUS
<1> USE DEF InvoicesInv
<1>1. ASSUME NEW p \in Purchases, HandleDownload(p) PROVE InvoicesInv'
  BY <1>1 DEF HandleDownload
<1>2. ASSUME NEW p \in Purchases, PdfSaved(p) \/ PdfFails(p) PROVE InvoicesInv'
  <2>1. invoice'.downloading = NoPurchase /\ invoice' \in [downloading : Purchases \cup {NoPurchase},
                                                            failed : Purchases \cup {NoPurchase}]
    BY <1>2 DEF PdfSaved, PdfFails, SpinnerGone
  <2>2. pdfs' \in [Purchases -> Nat]
    <3>1. pdfs[p] - 1 \in Nat /\ pdfs' = [pdfs EXCEPT ![p] = @ - 1]
      BY <1>2 DEF PdfSaved, PdfFails
    <3> QED BY <3>1
  <2> QED BY <2>1, <2>2, InvoicesAssumption
<1>3. CASE UNCHANGED invoiceVars
  BY <1>3 DEF invoiceVars
<1> QED BY <1>1, <1>2, <1>3 DEF InvoicesNext

LEMMA InvoicesAlways == InvoicesSpec => []InvoicesInv
<1>1. InvoicesInit => InvoicesInv
  BY InvoicesAssumption DEF InvoicesInit, InvoicesInv
<1> QED BY <1>1, InvoicesStep, PTL DEF InvoicesSpec

LEMMA InvInvoices == InvoicesInv => LoadingRowIsLoading
BY DEF InvoicesInv, LoadingRowIsLoading, Label

(***************************************************************************)
(* The pulses: the newest of those that dwell, position by position.       *)
(***************************************************************************)

\* s is the end of d.
EndOf(s, d) ==
  /\ s \in Seq(Nat) /\ Len(s) <= Len(d)
  /\ \A i \in 1..Len(s) : s[i] = d[i + (Len(d) - Len(s))]

Distinct(d) == \A i, j \in 1..Len(d) : d[i] = d[j] => i = j

PulseInv ==
  /\ dwelling \in Seq(Nat) /\ Distinct(dwelling)
  /\ EndOf(pulses, dwelling) /\ Len(pulses) <= MAX_VISIBLE

\* One of the first n + 1 ids is not among the n that dwell.
LEMMA FreshIdIsFresh ==
  ASSUME dwelling \in Seq(Nat)
  PROVE  FreshId \in Nat /\ \A i \in 1..Len(dwelling) : dwelling[i] # FreshId
<1> DEFINE n == Len(dwelling)
           Spot(id) == CHOOSE i \in 1..n : dwelling[i] = id
           f == [id \in 1..n+1 |-> Spot(id)]
<1>1. \E id \in 1..n+1 : id \notin ToSet(dwelling)
  <2> SUFFICES ASSUME \A id \in 1..n+1 : id \in ToSet(dwelling) PROVE FALSE
    OBVIOUS
  <2>1. \A id \in 1..n+1 : Spot(id) \in 1..n /\ dwelling[Spot(id)] = id
    BY DEF ToSet
  <2>2. n \in Nat
    OBVIOUS
  <2>3. /\ IsFiniteSet(1..n) /\ Cardinality(1..n) = n
        /\ IsFiniteSet(1..n+1) /\ Cardinality(1..n+1) = n + 1
    <3> HIDE DEF n
    <3>1. IsFiniteSet(1..n) /\ Cardinality(1..n) = IF 1 > n THEN 0 ELSE n - 1 + 1
      BY <2>2, FS_Interval
    <3>2. IsFiniteSet(1..n+1) /\ Cardinality(1..n+1) = IF 1 > n + 1 THEN 0 ELSE (n + 1) - 1 + 1
      <4> DEFINE m == n + 1
      <4>1. 1 \in Int /\ m \in Int
        BY <2>2
      <4> HIDE DEF m
      <4>2. IsFiniteSet(1..m) /\ Cardinality(1..m) = IF 1 > m THEN 0 ELSE m - 1 + 1
        BY <4>1, FS_Interval
      <4> QED BY <4>2 DEF m
    <3> QED BY <2>2, <3>1, <3>2
  <2> HIDE DEF Spot
  <2>4. f \in [1..n+1 -> 1..n]
    BY <2>1
  <2>5. PICK x, y \in 1..n+1 : x # y /\ f[x] = f[y]
    <3>1. n < n + 1
      BY <2>2
    <3> DEFINE S == 1..n+1
               T == 1..n
    <3>2. IsFiniteSet(S) /\ IsFiniteSet(T) /\ Cardinality(T) < Cardinality(S) /\ f \in [S -> T]
      BY <2>3, <2>4, <3>1
    <3> HIDE DEF S, T, f
    <3>3. \E x, y \in S : x # y /\ f[x] = f[y]
      BY <3>2, FS_PigeonHole
    <3> QED BY <3>3 DEF S
  <2> QED BY <2>1, <2>5
<1>2. FreshId \in 1..n+1 /\ FreshId \notin ToSet(dwelling)
  BY <1>1 DEF FreshId
<1> QED BY <1>2 DEF ToSet

\* How a sequence is shown to be the end of another, when their lengths are known.
LEMMA EndOfBy ==
  ASSUME NEW s \in Seq(Nat), NEW d, NEW m \in Nat, NEW n \in Nat,
         Len(s) = m, Len(d) = n, m <= n, \A i \in 1..m : s[i] = d[i + (n - m)]
  PROVE  EndOf(s, d)
BY DEF EndOf

LEMMA AppendKeepsEnd ==
  ASSUME NEW d \in Seq(Nat), NEW s, EndOf(s, d), NEW x \in Nat
  PROVE  EndOf(Append(s, x), Append(d, x))
<1>1. s \in Seq(Nat) /\ Len(s) \in Nat /\ Len(d) \in Nat /\ Len(s) <= Len(d)
  BY DEF EndOf
<1>2. /\ Append(s, x) \in Seq(Nat) /\ Len(Append(s, x)) = Len(s) + 1
      /\ Len(Append(d, x)) = Len(d) + 1
  BY <1>1
<1>3. ASSUME NEW i \in 1..Len(s) + 1
      PROVE  Append(s, x)[i] = Append(d, x)[i + (Len(d) - Len(s))]
  <2>1. CASE i = Len(s) + 1
    BY <1>1, <2>1
  <2>2. CASE i \in 1..Len(s)
    <3>1. s[i] = d[i + (Len(d) - Len(s))] /\ i + (Len(d) - Len(s)) \in 1..Len(d)
      BY <1>1, <2>2 DEF EndOf
    <3> QED BY <1>1, <2>2, <3>1
  <2>3. i = Len(s) + 1 \/ i \in 1..Len(s)
    BY <1>1
  <2> QED BY <2>1, <2>2, <2>3
<1> DEFINE a == Append(s, x)
           b == Append(d, x)
           m == Len(s) + 1
           n == Len(d) + 1
<1>4. /\ a \in Seq(Nat) /\ m \in Nat /\ n \in Nat /\ Len(a) = m /\ Len(b) = n /\ m <= n
      /\ n - m = Len(d) - Len(s)
  BY <1>1, <1>2
<1>5. \A i \in 1..m : a[i] = b[i + (n - m)]
  BY <1>3, <1>4
<1> HIDE DEF a, b, m, n
<1>6. EndOf(a, b)
  BY <1>4, <1>5, EndOfBy
<1> QED BY <1>6 DEF a, b

LEMMA VisibleKeepsEnd ==
  ASSUME NEW d \in Seq(Nat), NEW s, EndOf(s, d)
  PROVE  EndOf(Visible(s), d) /\ Len(Visible(s)) <= MAX_VISIBLE
<1>1. s \in Seq(Nat) /\ Len(s) \in Nat /\ Len(d) \in Nat /\ Len(s) <= Len(d) /\ MAX_VISIBLE \in Nat \ {0}
  BY PulseAssumption DEF EndOf
<1>2. CASE Len(s) <= MAX_VISIBLE
  BY <1>2 DEF Visible
<1>3. CASE ~(Len(s) <= MAX_VISIBLE)
  <2> DEFINE m == Len(s) - MAX_VISIBLE + 1
  <2>1. m \in 1..Len(s) /\ Visible(s) = SubSeq(s, m, Len(s))
    BY <1>1, <1>3 DEF Visible
  <2>2. /\ SubSeq(s, m, Len(s)) \in Seq(Nat) /\ Len(SubSeq(s, m, Len(s))) = MAX_VISIBLE
        /\ \A i \in 1..MAX_VISIBLE : SubSeq(s, m, Len(s))[i] = s[m + i - 1]
    <3>1. m \in Int /\ Len(s) \in Int /\ m <= Len(s) /\ Len(s) - m + 1 = MAX_VISIBLE
      BY <1>1, <1>3
    <3>2. \A i \in m..Len(s) : s[i] \in Nat
      <4>1. \A i \in m..Len(s) : i \in 1..Len(s)
        BY <1>1, <2>1
      <4> HIDE DEF m
      <4> QED BY <1>1, <4>1
    <3> HIDE DEF m
    <3> QED BY <1>1, <3>1, <3>2, SubSeqProperties
  <2>3. ASSUME NEW i \in 1..MAX_VISIBLE
        PROVE  s[m + i - 1] = d[i + (Len(d) - MAX_VISIBLE)]
    <3>1. m + i - 1 \in 1..Len(s) /\ (m + i - 1) + (Len(d) - Len(s)) = i + (Len(d) - MAX_VISIBLE)
      BY <1>1, <1>3
    <3>2. \A j \in 1..Len(s) : s[j] = d[j + (Len(d) - Len(s))]
      BY DEF EndOf
    <3> HIDE DEF m
    <3> QED BY <3>1, <3>2
  <2>4. \A i \in 1..MAX_VISIBLE : Visible(s)[i] = d[i + (Len(d) - MAX_VISIBLE)]
    <3> HIDE DEF m
    <3> QED BY <2>1, <2>2, <2>3
  <2>5. Visible(s) \in Seq(Nat) /\ Len(Visible(s)) = MAX_VISIBLE
    <3> HIDE DEF m
    <3> QED BY <2>1, <2>2
  <2> DEFINE a == Visible(s)
  <2>6. EndOf(a, d)
    <3>1. Len(d) \in Nat /\ MAX_VISIBLE \in Nat /\ MAX_VISIBLE <= Len(d)
      BY <1>1, <1>3
    <3>2. a \in Seq(Nat) /\ Len(a) = MAX_VISIBLE /\ \A i \in 1..MAX_VISIBLE : a[i] = d[i + (Len(d) - MAX_VISIBLE)]
      BY <2>4, <2>5
    <3> HIDE DEF a
    <3> QED BY <3>1, <3>2, EndOfBy
  <2> QED BY <1>1, <2>5, <2>6
<1> QED BY <1>2, <1>3

\* When the oldest dwell timer fires the pulse that leaves, if it is still there, is the first.
LEMMA RemovalKeepsEnd ==
  ASSUME NEW d \in Seq(Nat), d # <<>>, Distinct(d), NEW s, EndOf(s, d)
  PROVE  EndOf(RemoveFirst(s, Head(d)), Tail(d)) /\ Len(RemoveFirst(s, Head(d))) <= Len(s)
<1>1. /\ s \in Seq(Nat) /\ Len(s) \in Nat /\ Len(d) \in Nat /\ Len(s) <= Len(d)
      /\ Head(d) = d[1] /\ Len(d) > 0
  BY DEF EndOf
<1>2. Tail(d) \in Seq(Nat) /\ Len(Tail(d)) = Len(d) - 1 /\ \A i \in 1..Len(d) - 1 : Tail(d)[i] = d[i + 1]
  BY HeadTailProperties
<1>3. CASE Len(s) < Len(d)
  <2>1. \A i \in 1..Len(s) : s[i] # Head(d)
    <3> TAKE i \in 1..Len(s)
    <3>1. s[i] = d[i + (Len(d) - Len(s))] /\ i + (Len(d) - Len(s)) \in 2..Len(d)
      BY <1>1, <1>3 DEF EndOf
    <3> DEFINE j == i + (Len(d) - Len(s))
    <3>2. s[i] = d[j] /\ j \in 1..Len(d) /\ j # 1 /\ 1 \in 1..Len(d)
      BY <1>1, <3>1
    <3> HIDE DEF j
    <3>3. d[j] # d[1]
      BY <3>2 DEF Distinct
    <3> QED BY <1>1, <3>2, <3>3
  <2>2. RemoveFirst(s, Head(d)) = s
    BY <2>1 DEF RemoveFirst
  <2>3. ASSUME NEW i \in 1..Len(s) PROVE s[i] = Tail(d)[i + (Len(Tail(d)) - Len(s))]
    <3>1. s[i] = d[i + (Len(d) - Len(s))]
      BY DEF EndOf
    <3>2. /\ i + (Len(d) - 1 - Len(s)) \in 1..Len(d) - 1
          /\ i + (Len(d) - 1 - Len(s)) + 1 = i + (Len(d) - Len(s))
      BY <1>1, <1>3
    <3> QED BY <1>2, <3>1, <3>2
  <2> QED BY <1>1, <1>2, <1>3, <2>2, <2>3 DEF EndOf
<1>4. CASE Len(s) = Len(d)
  <2>1. \A i \in 1..Len(s) : s[i] = d[i]
    BY <1>1, <1>4 DEF EndOf
  <2>2. {i \in 1..Len(s) : s[i] = Head(d)} = {1}
    BY <1>1, <1>4, <2>1 DEF Distinct
  <2>3. SelectInSeq(s, LAMBDA v : v = Head(d)) = 1
    <3>1. Min({1}) = 1
      BY DEF Min
    <3> QED BY <2>2, <3>1 DEF SelectInSeq
  <2>4. RemoveFirst(s, Head(d)) = RemoveAt(s, 1)
    <3>1. \E i \in 1..Len(s) : s[i] = Head(d)
      BY <2>2
    <3> QED BY <2>3, <3>1 DEF RemoveFirst
  <2>5. SubSeq(s, 1, 0) = <<>> /\ SubSeq(s, 2, Len(s)) = Tail(s)
    <3>1. s # <<>>
      BY <1>1, <1>4
    <3>2. SubSeq(s, 1, 0) = <<>>
      BY <1>1, SubSeqEmpty
    <3>3. SubSeq(s, 2, Len(s)) = Tail(s)
      BY <1>1, <3>1, TailIsSubSeq
    <3> QED BY <3>2, <3>3
  <2>9. RemoveAt(s, 1) = SubSeq(s, 1, 0) \o SubSeq(s, 2, Len(s))
    <3>1. 1 - 1 = 0 /\ 1 + 1 = 2
      OBVIOUS
    <3> QED BY <3>1 DEF RemoveAt
  <2>6. RemoveFirst(s, Head(d)) = Tail(s)
    <3>1. Tail(s) \in Seq(Nat)
      BY <1>1, <1>4, HeadTailProperties
    <3>2. <<>> \o Tail(s) = Tail(s)
      BY <3>1, ConcatEmptySeq
    <3> QED BY <2>4, <2>5, <2>9, <3>2
  <2>7. /\ Tail(s) \in Seq(Nat) /\ Len(Tail(s)) = Len(s) - 1
        /\ \A i \in 1..Len(s) - 1 : Tail(s)[i] = s[i + 1]
    BY <1>1, <1>4, HeadTailProperties
  <2>8. ASSUME NEW i \in 1..Len(s) - 1 PROVE Tail(s)[i] = Tail(d)[i + (Len(Tail(d)) - Len(Tail(s)))]
    <3>1. i \in Nat /\ i + 1 \in 1..Len(s) /\ i \in 1..Len(d) - 1
      BY <1>1, <1>4
    <3>2. Len(Tail(d)) - Len(Tail(s)) = 0
      BY <1>1, <1>2, <1>4, <2>7
    <3>3. i + (Len(Tail(d)) - Len(Tail(s))) = i
      BY <3>1, <3>2
    <3>4. Tail(s)[i] = s[i + 1] /\ Tail(d)[i] = d[i + 1] /\ s[i + 1] = d[i + 1]
      BY <1>2, <2>1, <2>7, <3>1
    <3> QED BY <3>3, <3>4
  <2> DEFINE a == Tail(s)
             b == Tail(d)
             m == Len(s) - 1
  <2>10. a \in Seq(Nat) /\ m \in Nat /\ Len(a) = m /\ Len(b) = m /\ m <= m
    BY <1>1, <1>2, <1>4, <2>7
  <2>11. \A i \in 1..m : a[i] = b[i + (m - m)]
    BY <2>8, <2>10
  <2>12. EndOf(a, b)
    <3> HIDE DEF a, b, m
    <3> QED BY <2>10, <2>11, EndOfBy
  <2>13. Len(Tail(s)) <= Len(s)
    BY <1>1, <2>7
  <2> HIDE DEF m
  <2> QED BY <2>6, <2>12, <2>13
<1> QED BY <1>1, <1>3, <1>4

LEMMA PulseStep == PulseInv /\ [PulseNext]_pulseVars => PulseInv'
<1> SUFFICES ASSUME PulseInv, [PulseNext]_pulseVars PROVE PulseInv'
  OBVIOUS
<1> USE DEF PulseInv
<1>1. CASE TickEmits
  <2>1. FreshId \in Nat /\ \A i \in 1..Len(dwelling) : dwelling[i] # FreshId
    BY FreshIdIsFresh
  <2>2. pulses' = Visible(Append(pulses, FreshId)) /\ dwelling' = Append(dwelling, FreshId)
    BY <1>1 DEF TickEmits
  <2> DEFINE x == FreshId
  <2>3. /\ Append(dwelling, x) \in Seq(Nat) /\ Len(Append(dwelling, x)) = Len(dwelling) + 1
        /\ Append(dwelling, x)[Len(dwelling) + 1] = x
        /\ \A i \in 1..Len(dwelling) : Append(dwelling, x)[i] = dwelling[i]
    <3> HIDE DEF x
    <3>1. x \in Nat
      BY <2>1 DEF x
    <3> QED BY <3>1, AppendProperties
  <2>4. Distinct(Append(dwelling, x))
    <3> SUFFICES ASSUME NEW i \in 1..Len(dwelling) + 1, NEW j \in 1..Len(dwelling) + 1,
                        Append(dwelling, x)[i] = Append(dwelling, x)[j]
                 PROVE  i = j
      BY <2>3 DEF Distinct
    <3>1. Len(dwelling) \in Nat
      OBVIOUS
    <3> HIDE DEF x
    <3> QED BY <2>1, <2>3, <3>1 DEF Distinct, x
  <2>5. EndOf(Append(pulses, x), Append(dwelling, x))
    <3> HIDE DEF x
    <3>1. x \in Nat
      BY <2>1 DEF x
    <3> QED BY <3>1, AppendKeepsEnd
  <2>6. /\ EndOf(Visible(Append(pulses, x)), Append(dwelling, x))
        /\ Len(Visible(Append(pulses, x))) <= MAX_VISIBLE
    <3> HIDE DEF x
    <3> QED BY <2>3, <2>5, VisibleKeepsEnd
  <2> QED BY <2>2, <2>3, <2>4, <2>6
<1>2. CASE DwellOver
  <2>1. /\ dwelling # <<>> /\ dwelling' = Tail(dwelling)
        /\ pulses' = RemoveFirst(pulses, Head(dwelling))
    BY <1>2 DEF DwellOver
  <2>2. /\ Tail(dwelling) \in Seq(Nat) /\ Len(Tail(dwelling)) = Len(dwelling) - 1
        /\ \A i \in 1..Len(dwelling) - 1 : Tail(dwelling)[i] = dwelling[i + 1]
    BY <2>1, HeadTailProperties
  <2>3. Distinct(Tail(dwelling))
    <3> SUFFICES ASSUME NEW i \in 1..Len(dwelling) - 1, NEW j \in 1..Len(dwelling) - 1,
                        Tail(dwelling)[i] = Tail(dwelling)[j]
                 PROVE  i = j
      BY <2>2 DEF Distinct
    <3>1. dwelling[i + 1] = dwelling[j + 1] /\ i + 1 \in 1..Len(dwelling) /\ j + 1 \in 1..Len(dwelling)
      BY <2>2
    <3>2. i + 1 = j + 1
      BY <3>1 DEF Distinct
    <3> QED BY <3>2
  <2>4. /\ EndOf(RemoveFirst(pulses, Head(dwelling)), Tail(dwelling))
        /\ Len(RemoveFirst(pulses, Head(dwelling))) <= Len(pulses)
    BY <2>1, RemovalKeepsEnd
  <2>5. Len(pulses') <= MAX_VISIBLE
    <3>1. Len(pulses') \in Nat /\ Len(pulses) \in Nat /\ Len(pulses') <= Len(pulses)
      BY <2>1, <2>4 DEF EndOf
    <3> QED BY <3>1, PulseAssumption
  <2> QED BY <2>1, <2>2, <2>3, <2>4, <2>5
<1>3. CASE UNCHANGED <<pulses, dwelling>>
  BY <1>3
<1>4. PulseNext => TickEmits \/ DwellOver \/ UNCHANGED <<pulses, dwelling>>
  BY DEF PulseNext, FpsSampled, MouseEnter, MouseLeave, CurrencyChanges, Restarted
<1> QED BY <1>1, <1>2, <1>3, <1>4 DEF pulseVars

LEMMA PulseAlways == PulseSpec => []PulseInv
<1>1. PulseInit => PulseInv
  <2> SUFFICES ASSUME PulseInit PROVE PulseInv
    OBVIOUS
  <2>1. pulses = <<>> /\ dwelling = <<>>
    BY DEF PulseInit
  <2> QED BY <2>1, PulseAssumption DEF PulseInv, EndOf, Distinct
<1> QED BY <1>1, PulseStep, PTL DEF PulseSpec

LEMMA InvPulses == PulseInv => PulsesAreTheNewest
<1> SUFFICES ASSUME PulseInv PROVE PulsesAreTheNewest
  OBVIOUS
<1> DEFINE k == Len(pulses)
           n == Len(dwelling)
           newest == SubSeq(dwelling, n - k + 1, n)
<1>1. /\ k \in Nat /\ n \in Nat /\ k <= n /\ pulses \in Seq(Nat) /\ dwelling \in Seq(Nat)
      /\ \A i \in 1..k : pulses[i] = dwelling[i + (n - k)]
  BY DEF PulseInv, EndOf
<1>2. newest \in Seq(Nat) /\ Len(newest) = k /\ \A i \in 1..k : newest[i] = dwelling[i + (n - k)]
  <2> DEFINE m == n - k + 1
  <2>1. m \in Int /\ n \in Int /\ (IF m <= n THEN n - m + 1 ELSE 0) = k /\ n - m + 1 = k
    BY <1>1
  <2>2. \A i \in m..n : dwelling[i] \in Nat
    BY <1>1
  <2>3. \A i \in 1..k : m + i - 1 = i + (n - k)
    BY <1>1
  <2> HIDE DEF k, n, m
  <2>4. /\ SubSeq(dwelling, m, n) \in Seq(Nat) /\ Len(SubSeq(dwelling, m, n)) = k
        /\ \A i \in 1..k : SubSeq(dwelling, m, n)[i] = dwelling[m + i - 1]
    BY <2>1, <2>2, SubSeqProperties
  <2> QED BY <2>3, <2>4 DEF m
<1>3. pulses = newest
  <2> HIDE DEF newest
  <2>1. \A i \in 1..Len(pulses) : pulses[i] = newest[i]
    BY <1>1, <1>2
  <2> QED BY <1>1, <1>2, <2>1, SeqEqual
<1> QED BY <1>1, <1>3 DEF PulseInv, PulsesAreTheNewest, Newest

(***************************************************************************)
(* The live cost meter.                                                    *)
(***************************************************************************)

Tickers == [seen : SUBSET DOMAIN MeterReadings, total : Nat, shares : [Specialists -> Nat],
            dirty : BOOLEAN, streaming : BOOLEAN, handle : BOOLEAN]

\* What the ticker t added up is what was told, and its shares add up to it.
SumsUp(t, added) ==
  /\ t.seen = added /\ IsFiniteSet(added) /\ added \subseteq DOMAIN MeterReadings
  /\ t.total = SumOver(Cost, added)
  /\ t.total = SumOver(t.shares, Specialists)

\* An odometer: at rest it shows the amount it was given.
Resting(o) ==
  /\ o = [prior |-> o.prior, to |-> o.to, shown |-> o.shown, raf |-> o.raf]
  /\ o.raf \in BOOLEAN
  /\ ~o.raf => o.shown = o.to

\* What waits for a flush has its timer, and what does not is shown.
FlushPending ==
  /\ ticker.dirty => ticker.handle
  /\ ticker.handle => tick
  /\ meter.run # NoRun /\ ~ticker.dirty => snapshot = SnapshotOf(ticker)

MeterInv == ticker \in Tickers /\ SumsUp(ticker, told) /\ FlushPending /\ Resting(odometer)

LEMMA MeterFacts ==
  /\ IsFiniteSet(Specialists)
  /\ \A r \in DOMAIN MeterReadings :
       /\ MeterReadings[r].cost \in Int /\ MeterReadings[r].specialist \in Specialists
       /\ Cost[r] \in Nat
       /\ Cost[r] = IF MeterReadings[r].cost > 0 THEN MeterReadings[r].cost ELSE 0
BY MeterAssumption DEF Specialists, Cost

\* A share that grows makes the sum grow as much.
LEMMA ShareGrows ==
  ASSUME NEW f \in [Specialists -> Nat], NEW s \in Specialists, NEW c \in Nat
  PROVE  SumOver([f EXCEPT ![s] = @ + c], Specialists) = SumOver(f, Specialists) + c
<1> DEFINE g == [f EXCEPT ![s] = @ + c]
           R == Specialists \ {s}
<1>1. g \in [Specialists -> Nat] /\ g[s] = f[s] + c /\ \A x \in R : g[x] = f[x]
  OBVIOUS
<1>2. IsFiniteSet(Specialists) /\ IsFiniteSet(R)
  BY MeterFacts, FS_RemoveElement
<1> HIDE DEF g
<1>3. SumOver(g, Specialists) = g[s] + SumOver(g, R)
  BY <1>1, <1>2, SumOfMore
<1>4. SumOver(f, Specialists) = f[s] + SumOver(f, R)
  BY <1>2, SumOfMore
<1>5. SumOver(g, R) = SumOver(f, R) /\ SumOver(f, R) \in Nat
  <2>1. \A x \in R : f[x] \in Nat /\ g[x] = f[x]
    BY <1>1
  <2> HIDE DEF R
  <2> QED BY <1>2, <2>1, SumSame, SumType
<1> QED BY <1>1, <1>3, <1>4, <1>5 DEF g

LEMMA CostGrows ==
  ASSUME NEW T, T \subseteq DOMAIN MeterReadings, IsFiniteSet(T), NEW r \in DOMAIN MeterReadings, r \notin T
  PROVE  /\ IsFiniteSet(T \cup {r})
         /\ SumOver(Cost, T \cup {r}) = SumOver(Cost, T) + Cost[r]
<1> DEFINE U == T \cup {r}
<1>1. IsFiniteSet(U) /\ r \in U /\ U \ {r} = T /\ \A x \in U : Cost[x] \in Nat
  <2>1. IsFiniteSet(U)
    BY FS_AddElement
  <2> QED BY <2>1, MeterFacts
<1>2. SumOver(Cost, U) = Cost[r] + SumOver(Cost, U \ {r})
  <2> HIDE DEF U
  <2> QED BY <1>1, SumOfMore
<1>3. SumOver(Cost, T) \in Nat /\ Cost[r] \in Nat
  BY MeterFacts, SumType
<1>4. SumOver(Cost, U \ {r}) = SumOver(Cost, T)
  <2> HIDE DEF U
  <2> QED BY <1>1
<1>5. SumOver(Cost, U) = SumOver(Cost, T) + Cost[r]
  <2> HIDE DEF U
  <2> DEFINE x == SumOver(Cost, T)
             y == SumOver(Cost, U \ {r})
             z == SumOver(Cost, U)
  <2>1. z = Cost[r] + y /\ y = x /\ x \in Nat
    BY <1>2, <1>3, <1>4
  <2> HIDE DEF x, y, z
  <2>2. z = x + Cost[r]
    BY <1>3, <2>1
  <2> QED BY <2>2 DEF x, z
<1> QED BY <1>1, <1>5

LEMMA RetargetRests ==
  ASSUME NEW o, Resting(o), NEW amount PROVE Resting(Retarget(o, amount))
BY DEF Resting, Retarget

LEMMA SameSnapshot ==
  ASSUME NEW t, NEW u, u.total = t.total, u.streaming = t.streaming, u.seen = t.seen
  PROVE  SnapshotOf(u) = SnapshotOf(t)
BY DEF SnapshotOf

\* Dirty or not, waiting or not, a ticker has added up the same.
LEMMA FlagsKeepSums ==
  ASSUME NEW t \in Tickers, NEW d \in BOOLEAN, NEW h \in BOOLEAN, NEW e \in BOOLEAN
  PROVE  LET u == [t EXCEPT !.dirty = d, !.handle = h, !.streaming = e]
         IN  /\ u \in Tickers /\ u.dirty = d /\ u.handle = h /\ u.streaming = e
             /\ u.seen = t.seen /\ u.total = t.total /\ u.shares = t.shares
BY DEF Tickers

\* A flush of a ticker that adds up, of the run and the currency of the page.
LEMMA FlushKeeps ==
  ASSUME MeterInv, NEW t \in Tickers, SumsUp(t, told'), FlushImmediate(t),
         t.handle => tick', meter' = meter
  PROVE  MeterInv'
<1>1. ticker' = [t EXCEPT !.dirty = FALSE] /\ snapshot' = SnapshotOf(t)
  BY DEF FlushImmediate, Render
<1>2. /\ ticker' \in Tickers /\ ~ticker'.dirty /\ ticker'.handle = t.handle
      /\ ticker'.seen = t.seen /\ ticker'.total = t.total /\ ticker'.shares = t.shares
      /\ ticker'.streaming = t.streaming
  BY <1>1 DEF Tickers
<1>3. SumsUp(ticker, told)'
  BY <1>2 DEF SumsUp
<1>4. snapshot' = SnapshotOf(ticker)'
  BY <1>1, <1>2 DEF SnapshotOf
<1>5. FlushPending'
  BY <1>2, <1>4 DEF FlushPending
<1>6. Resting(odometer)'
  <2>1. Resting(odometer)
    BY DEF MeterInv
  <2>2. odometer' = Retarget(odometer, FormatCurrency(SnapshotOf(t).total, SnapshotOf(t).currency))
    BY DEF FlushImmediate, Render
  <2>3. Resting(odometer')
    BY <2>1, <2>2, RetargetRests
  <2> QED BY <2>3 DEF Resting
<1> QED BY <1>2, <1>3, <1>5, <1>6 DEF MeterInv

\* markDirty of a ticker that adds up.
LEMMA MarkKeeps ==
  ASSUME MeterInv, NEW t \in Tickers, SumsUp(t, told'), MarkDirty(t), t.handle = ticker.handle, meter' = meter
  PROVE  MeterInv'
<1>0. ticker.handle => tick
  BY DEF MeterInv, FlushPending
<1>1. CASE t.handle
  <2>1. ticker' = [t EXCEPT !.dirty = TRUE] /\ UNCHANGED <<tick, odometer>>
    BY <1>1 DEF MarkDirty
  <2>2. /\ ticker' \in Tickers /\ ticker'.dirty /\ ticker'.handle
        /\ ticker'.seen = t.seen /\ ticker'.total = t.total /\ ticker'.shares = t.shares
    BY <1>1, <2>1 DEF Tickers
  <2>3. SumsUp(ticker, told)' /\ FlushPending' /\ Resting(odometer)'
    BY <1>0, <1>1, <2>1, <2>2 DEF SumsUp, FlushPending, MeterInv, Resting
  <2> QED BY <2>2, <2>3 DEF MeterInv
<1>2. CASE ~t.handle /\ t.streaming
  <2>1. ticker' = [t EXCEPT !.dirty = TRUE, !.handle = TRUE] /\ tick' = TRUE /\ odometer' = odometer
    BY <1>2 DEF MarkDirty
  <2>2. /\ ticker' \in Tickers /\ ticker'.dirty /\ ticker'.handle
        /\ ticker'.seen = t.seen /\ ticker'.total = t.total /\ ticker'.shares = t.shares
    BY <2>1 DEF Tickers
  <2>3. SumsUp(ticker, told)' /\ FlushPending' /\ Resting(odometer)'
    BY <2>1, <2>2 DEF SumsUp, FlushPending, MeterInv, Resting
  <2> QED BY <2>2, <2>3 DEF MeterInv
<1>3. CASE ~t.handle /\ ~t.streaming
  <2>1. FlushImmediate(t)
    BY <1>3 DEF MarkDirty
  <2> QED BY <1>3, <2>1, FlushKeeps
<1> QED BY <1>1, <1>2, <1>3

\* CostAccumulator.add: the ticker after a reading it had not seen, of a positive cost.
LEMMA AddKeeps ==
  ASSUME MeterInv, NEW r \in DOMAIN MeterReadings, r \notin ticker.seen, MeterReadings[r].cost > 0
  PROVE  LET t == AddCost(ticker, r)
         IN  /\ t \in Tickers /\ SumsUp(t, told \cup {r})
             /\ t.total = ticker.total + MeterReadings[r].cost
             /\ t.dirty = ticker.dirty /\ t.handle = ticker.handle /\ t.streaming = ticker.streaming
             /\ t.seen = ticker.seen \cup {r}
<1> DEFINE c == MeterReadings[r].cost
           s == MeterReadings[r].specialist
           shares == [ticker.shares EXCEPT ![s] = @ + c]
           t == AddCost(ticker, r)
<1>1. c \in Nat /\ s \in Specialists /\ Cost[r] = c
  BY MeterFacts
<1>2. ticker \in Tickers /\ SumsUp(ticker, told)
  BY DEF MeterInv
<1>3. ticker.shares \in [Specialists -> Nat] /\ ticker.total \in Nat
  BY <1>2 DEF Tickers
<1>4. shares \in [Specialists -> Nat]
  BY <1>1, <1>3
<1>5. t = [ticker EXCEPT !.seen = @ \union {r}, !.total = @ + c, !.shares = shares]
  BY <1>2 DEF AddCost, Tickers
<1> HIDE DEF c, s, shares, t
<1>6. /\ t \in Tickers /\ t.seen = ticker.seen \cup {r} /\ t.total = ticker.total + c /\ t.shares = shares
      /\ t.dirty = ticker.dirty /\ t.handle = ticker.handle /\ t.streaming = ticker.streaming
  <2>1. /\ ticker.seen \cup {r} \in SUBSET DOMAIN MeterReadings /\ ticker.total + c \in Nat
        /\ ticker.dirty \in BOOLEAN /\ ticker.handle \in BOOLEAN /\ ticker.streaming \in BOOLEAN
    BY <1>1, <1>2, <1>3 DEF Tickers
  <2>2. t = [seen |-> ticker.seen \cup {r}, total |-> ticker.total + c, shares |-> shares,
             dirty |-> ticker.dirty, streaming |-> ticker.streaming, handle |-> ticker.handle]
    BY <1>2, <1>5 DEF Tickers
  <2> QED BY <1>4, <2>1, <2>2 DEF Tickers
<1>7. SumOver(shares, Specialists) = ticker.total + c
  <2>1. SumOver([ticker.shares EXCEPT ![s] = @ + c], Specialists) = SumOver(ticker.shares, Specialists) + c
    BY <1>1, <1>3, ShareGrows
  <2> QED BY <1>2, <2>1 DEF SumsUp, shares
<1>8. IsFiniteSet(told \cup {r}) /\ SumOver(Cost, told \cup {r}) = ticker.total + c
  <2>1. told \subseteq DOMAIN MeterReadings /\ IsFiniteSet(told) /\ r \notin told /\ ticker.total = SumOver(Cost, told)
    BY <1>2 DEF SumsUp
  <2>2. IsFiniteSet(told \cup {r}) /\ SumOver(Cost, told \cup {r}) = SumOver(Cost, told) + Cost[r]
    BY <2>1, CostGrows
  <2> QED BY <1>1, <2>1, <2>2
<1>9. SumsUp(t, told \cup {r})
  BY <1>2, <1>6, <1>7, <1>8 DEF SumsUp
<1> QED BY <1>6, <1>9 DEF t, c

\* After a reading that costs nothing, or less: it is seen, and that is all.
LEMMA SkippedKeeps ==
  ASSUME MeterInv, NEW r \in DOMAIN MeterReadings, r \notin ticker.seen, ~(MeterReadings[r].cost > 0)
  PROVE  LET t == [ticker EXCEPT !.seen = @ \union {r}]
         IN  /\ t \in Tickers /\ SumsUp(t, told \cup {r}) /\ t.total = ticker.total
             /\ t.dirty = ticker.dirty /\ t.handle = ticker.handle /\ t.streaming = ticker.streaming
             /\ t.seen = ticker.seen \cup {r}
<1> DEFINE t == [ticker EXCEPT !.seen = @ \union {r}]
<1>1. Cost[r] = 0
  BY MeterFacts
<1>2. ticker \in Tickers /\ SumsUp(ticker, told)
  BY DEF MeterInv
<1>3. /\ t \in Tickers /\ t.seen = ticker.seen \cup {r} /\ t.total = ticker.total
      /\ t.shares = ticker.shares
      /\ t.dirty = ticker.dirty /\ t.handle = ticker.handle /\ t.streaming = ticker.streaming
  BY <1>2 DEF Tickers
<1> HIDE DEF t
<1>4. IsFiniteSet(told \cup {r}) /\ SumOver(Cost, told \cup {r}) = ticker.total
  <2>1. /\ told \subseteq DOMAIN MeterReadings /\ IsFiniteSet(told) /\ r \notin told
        /\ ticker.total = SumOver(Cost, told) /\ ticker.total \in Nat
    BY <1>2 DEF SumsUp, Tickers
  <2>2. IsFiniteSet(told \cup {r}) /\ SumOver(Cost, told \cup {r}) = SumOver(Cost, told) + Cost[r]
    BY <2>1, CostGrows
  <2> QED BY <1>1, <2>1, <2>2
<1>5. SumsUp(t, told \cup {r})
  BY <1>2, <1>3, <1>4 DEF SumsUp
<1> QED BY <1>3, <1>5 DEF t

LEMMA NothingSums ==
  ASSUME NEW S, IsFiniteSet(S), NEW w, \A x \in S : w[x] = 0
  PROVE  SumOver(w, S) = 0
<1>1. Units(w, S) = {}
  BY DEF Units
<1>2. Weight(w, S) = 0
  BY <1>1, FS_EmptySet DEF Weight
<1>3. \A x \in S : w[x] \in Nat
  OBVIOUS
<1> QED BY <1>2, <1>3, SumIsWeight

LEMMA NewTickerSums == NewTicker \in Tickers /\ SumsUp(NewTicker, {})
<1>1. NewTicker \in Tickers
  BY DEF NewTicker, Tickers
<1> DEFINE none == [s \in Specialists |-> 0]
<1>2. NewTicker.seen = {} /\ NewTicker.total = 0 /\ NewTicker.shares = none
  BY DEF NewTicker
<1>3. SumOver(none, Specialists) = 0
  <2>1. \A s \in Specialists : none[s] = 0
    OBVIOUS
  <2> HIDE DEF none
  <2> QED BY <2>1, MeterFacts, NothingSums
<1>4. IsFiniteSet({}) /\ SumOver(Cost, {}) = 0
  <2>1. \A x \in {} : Cost[x] \in Nat
    OBVIOUS
  <2> QED BY <2>1, FS_EmptySet, SumType
<1> QED BY <1>1, <1>2, <1>3, <1>4 DEF SumsUp

\* The snapshot of a ticker nothing was added to.
LEMMA FirstSnapshot ==
  SnapshotOf(NewTicker) = [run |-> meter.run, currency |-> meter.currency, total |-> 0,
                           alert |-> AlertLevel(0), streaming |-> TRUE, stamp |-> 0]
<1>1. NewTicker.seen = {} /\ NewTicker.total = 0 /\ NewTicker.streaming
  BY DEF NewTicker
<1>2. {r \in NewTicker.seen : MeterReadings[r].cost > 0} = {}
  BY <1>1
<1>3. Cardinality({r \in NewTicker.seen : MeterReadings[r].cost > 0}) = 0
  BY <1>2, FS_EmptySet
<1>4. NewTicker.streaming = TRUE
  BY DEF NewTicker
<1> QED BY <1>1, <1>3, <1>4 DEF SnapshotOf

LEMMA SettledRests == \A cost, currency : Resting(Settled(cost, currency))
BY DEF Resting, Settled

LEMMA MeterStart == MeterInit => MeterInv
<1> SUFFICES ASSUME MeterInit PROVE MeterInv
  OBVIOUS
<1>1. ticker = NewTicker /\ told = {} /\ odometer = Settled(0, meter.currency)
  BY DEF MeterInit
<1>2. ~ticker.dirty /\ ~ticker.handle
  BY <1>1 DEF NewTicker
<1>3. ASSUME meter.run # NoRun PROVE snapshot = SnapshotOf(ticker)
  <2>1. snapshot = [SnapshotOf(NewTicker) EXCEPT !.streaming = TRUE]
    BY <1>3 DEF MeterInit
  <2> DEFINE first == [run |-> meter.run, currency |-> meter.currency, total |-> 0,
                       alert |-> AlertLevel(0), streaming |-> TRUE, stamp |-> 0]
  <2>2. SnapshotOf(NewTicker) = first
    BY FirstSnapshot
  <2>3. [first EXCEPT !.streaming = TRUE] = first
    <3>1. first = [f \in {"run", "currency", "total", "alert", "streaming", "stamp"} |-> first[f]]
      OBVIOUS
    <3>2. first.streaming = TRUE
      OBVIOUS
    <3> HIDE DEF first
    <3>3. DOMAIN first = {"run", "currency", "total", "alert", "streaming", "stamp"}
      BY <3>1
    <3> QED BY <3>1, <3>2, <3>3, ZenonT(30)
  <2> HIDE DEF first
  <2> QED BY <1>1, <2>1, <2>2, <2>3
<1> QED BY <1>1, <1>2, <1>3, NewTickerSums, SettledRests DEF MeterInv, FlushPending

LEMMA PropsChangeKeeps ==
  ASSUME MeterInv, NEW run, NEW currency, MeterPropsChange(run, currency) PROVE MeterInv'
<1>1. ticker' = NewTicker /\ told' = {} /\ meter' = [run |-> run, currency |-> currency]
  BY DEF MeterPropsChange
<1>2. ~ticker'.dirty /\ ~ticker'.handle
  BY <1>1 DEF NewTicker
<1>3. ASSUME run # NoRun PROVE snapshot' = SnapshotOf(ticker)'
  <2>1. snapshot' = [run |-> run, currency |-> currency, total |-> 0, alert |-> AlertLevel(0),
                     streaming |-> TRUE, stamp |-> 0]
    BY <1>3 DEF MeterPropsChange
  <2>2. ticker'.seen = {} /\ ticker'.total = 0 /\ ticker'.streaming = TRUE
    BY <1>1 DEF NewTicker
  <2>3. Cardinality({r \in ticker'.seen : MeterReadings[r].cost > 0}) = 0
    <3>1. {r \in ticker'.seen : MeterReadings[r].cost > 0} = {}
      BY <2>2
    <3> QED BY <3>1, FS_EmptySet
  <2> QED BY <1>1, <2>1, <2>2, <2>3 DEF SnapshotOf
<1>4. Resting(odometer')
  <2>1. Resting(odometer)
    BY DEF MeterInv
  <2>2. CASE run = NoRun
    BY <2>1, <2>2 DEF MeterPropsChange
  <2>3. CASE run # NoRun
    <3> DEFINE o == IF meter.run = NoRun THEN Settled(snapshot.total, snapshot.currency) ELSE odometer
               amount == FormatCurrency(0, currency)
    <3>1. Resting(o)
      BY <2>1, SettledRests
    <3>2. odometer' = Retarget(o, amount)
      BY <2>3 DEF MeterPropsChange
    <3> HIDE DEF o, amount
    <3> QED BY <3>1, <3>2, RetargetRests
  <2> QED BY <2>2, <2>3
<1>5. SumsUp(ticker', told') /\ ticker' \in Tickers
  BY <1>1, NewTickerSums
<1>6. FlushPending'
  BY <1>1, <1>2, <1>3 DEF FlushPending
<1> QED BY <1>4, <1>5, <1>6 DEF MeterInv, SumsUp, Resting

LEMMA ReadingKeeps ==
  ASSUME MeterInv, NEW r \in DOMAIN MeterReadings, ReadingRecorded(r) PROVE MeterInv'
<1> DEFINE after == Add(ticker, r)
<1>0. /\ ticker \in Tickers /\ SumsUp(ticker, told) /\ FlushPending /\ Resting(odometer)
      /\ told' = told \cup {r} /\ meter' = meter /\ IngestReading(r)
  BY DEF ReadingRecorded, MeterInv
<1>1. CASE r \in ticker.seen
  <2>1. after = ticker /\ told' = told
    BY <1>0, <1>1 DEF Add, SumsUp
  <2>2. ticker' = ticker /\ UNCHANGED <<tick, snapshot, odometer>>
    BY <1>0, <2>1 DEF IngestReading
  <2> QED BY <1>0, <2>1, <2>2 DEF MeterInv, FlushPending, SnapshotOf, SumsUp, Resting
<1>2. CASE r \notin ticker.seen
  <2>1. CASE ~(MeterReadings[r].cost > 0)
    <3>1. after = [ticker EXCEPT !.seen = @ \union {r}]
      <4>1. MeterReadings[r].cost <= 0
        BY <2>1, MeterFacts
      <4> QED BY <1>2, <4>1 DEF Add
    <3>2. /\ after \in Tickers /\ SumsUp(after, told') /\ after.total = ticker.total
          /\ after.dirty = ticker.dirty /\ after.handle = ticker.handle
          /\ after.streaming = ticker.streaming /\ after.seen = ticker.seen \cup {r}
      BY <1>0, <1>2, <2>1, <3>1, SkippedKeeps
    <3>3. ticker' = after /\ UNCHANGED <<tick, snapshot, odometer>>
      BY <1>0, <3>2 DEF IngestReading
    <3>4. {q \in after.seen : MeterReadings[q].cost > 0} = {q \in ticker.seen : MeterReadings[q].cost > 0}
      BY <2>1, <3>2
    <3> HIDE DEF after
    <3>5. SnapshotOf(ticker)' = SnapshotOf(ticker)
      BY <1>0, <3>2, <3>3, <3>4 DEF SnapshotOf
    <3>6. FlushPending'
      BY <1>0, <3>2, <3>3, <3>5 DEF FlushPending
    <3>7. SumsUp(ticker', told') /\ ticker' \in Tickers /\ odometer' = odometer
      BY <3>2, <3>3
    <3> QED BY <1>0, <3>6, <3>7 DEF MeterInv, SumsUp, Resting
  <2>2. CASE MeterReadings[r].cost > 0
    <3>1. after = AddCost(ticker, r)
      <4>1. ~(MeterReadings[r].cost <= 0)
        BY <2>2, MeterFacts
      <4> QED BY <1>2, <4>1 DEF Add
    <3>2. /\ after \in Tickers /\ SumsUp(after, told')
          /\ after.total = ticker.total + MeterReadings[r].cost
          /\ after.dirty = ticker.dirty /\ after.handle = ticker.handle
          /\ after.streaming = ticker.streaming /\ after.seen = ticker.seen \cup {r}
      BY <1>0, <1>2, <2>2, <3>1, AddKeeps
    <3>3. ticker.total \in Nat /\ MeterReadings[r].cost \in Int
      BY <1>0, MeterFacts DEF Tickers
    <3>4. after.total # ticker.total
      BY <2>2, <3>2, <3>3
    <3>5. MarkDirty(after)
      BY <1>0, <3>4 DEF IngestReading
    <3> HIDE DEF after
    <3> QED BY <1>0, <3>2, <3>5, MarkKeeps
  <2> QED BY <2>1, <2>2
<1> QED BY <1>1, <1>2

LEMMA TickKeeps == ASSUME MeterInv, TickFires PROVE MeterInv'
<1> DEFINE fired == [ticker EXCEPT !.handle = FALSE]
<1>1. /\ ticker \in Tickers /\ SumsUp(ticker, told) /\ FlushPending /\ Resting(odometer)
      /\ tick' = FALSE /\ told' = told /\ meter' = meter
  BY DEF TickFires, MeterInv
<1>2. /\ fired \in Tickers /\ ~fired.handle /\ fired.dirty = ticker.dirty /\ fired.seen = ticker.seen
      /\ fired.total = ticker.total /\ fired.shares = ticker.shares /\ fired.streaming = ticker.streaming
  BY <1>1 DEF Tickers
<1>3. SumsUp(fired, told')
  BY <1>1, <1>2 DEF SumsUp
<1>4. IF ticker.dirty THEN FlushImmediate(fired) ELSE NoFlush(fired)
  BY DEF TickFires, FlushIfDirty
<1> HIDE DEF fired
<1>5. CASE ticker.dirty
  BY <1>1, <1>2, <1>3, <1>4, <1>5, FlushKeeps
<1>6. CASE ~ticker.dirty
  <2>1. ticker' = fired /\ UNCHANGED <<snapshot, odometer>>
    BY <1>4, <1>6 DEF NoFlush
  <2>2. SnapshotOf(ticker)' = SnapshotOf(ticker)
    BY <1>1, <1>2, <2>1 DEF SnapshotOf
  <2>3. FlushPending'
    BY <1>1, <1>2, <1>6, <2>1, <2>2 DEF FlushPending
  <2> QED BY <1>1, <1>2, <1>3, <2>1, <2>3 DEF MeterInv, SumsUp, Resting
<1> QED BY <1>5, <1>6

LEMMA CompletedKeeps == ASSUME MeterInv, RunCompleted PROVE MeterInv'
<1> DEFINE t == [ticker EXCEPT !.streaming = FALSE]
<1>1. /\ ticker \in Tickers /\ SumsUp(ticker, told) /\ FlushPending
      /\ tick' = tick /\ told' = told /\ meter' = meter /\ FlushImmediate(t)
  BY DEF RunCompleted, MeterInv
<1>2. /\ t \in Tickers /\ t.handle = ticker.handle /\ t.seen = ticker.seen
      /\ t.total = ticker.total /\ t.shares = ticker.shares
  BY <1>1 DEF Tickers
<1> HIDE DEF t
<1>3. SumsUp(t, told') /\ (t.handle => tick')
  BY <1>1, <1>2 DEF SumsUp, FlushPending
<1> QED BY <1>1, <1>2, <1>3, FlushKeeps

LEMMA MeterStep == MeterInv /\ [MeterNext]_meterVars => MeterInv'
<1> SUFFICES ASSUME MeterInv, [MeterNext]_meterVars PROVE MeterInv'
  OBVIOUS
<1>1. ASSUME NEW run \in MeterRuns \cup {NoRun}, NEW currency \in Currencies, MeterPropsChange(run, currency)
      PROVE  MeterInv'
  BY <1>1, PropsChangeKeeps
<1>2. ASSUME NEW r \in DOMAIN MeterReadings, ReadingRecorded(r) PROVE MeterInv'
  BY <1>2, ReadingKeeps
<1>3. CASE ThresholdCrossed
  <2>1. ticker \in Tickers /\ SumsUp(ticker, told') /\ MarkDirty(ticker) /\ meter' = meter
    BY <1>3 DEF ThresholdCrossed, MeterInv
  <2> QED BY <2>1, MarkKeeps
<1>4. CASE StaleFires
  BY <1>4 DEF StaleFires, MeterInv, SumsUp, FlushPending, SnapshotOf, Resting
<1>5. CASE AnimateStep
  <2>1. Resting(odometer) /\ odometer.raf
    BY <1>5 DEF AnimateStep, MeterInv
  <2> DEFINE o == odometer
  <2>2. \/ odometer' = [o EXCEPT !.shown = Between]
        \/ odometer' = [o EXCEPT !.shown = o.to, !.prior = o.to, !.raf = FALSE]
    BY <1>5 DEF AnimateStep
  <2>3. Resting(odometer')
    BY <2>1, <2>2 DEF Resting
  <2> QED BY <1>5, <2>3 DEF AnimateStep, MeterInv, SumsUp, FlushPending, SnapshotOf, Resting
<1>6. CASE UNCHANGED meterVars
  BY <1>6 DEF meterVars, MeterInv, SumsUp, FlushPending, SnapshotOf, Resting
<1> QED BY <1>1, <1>2, <1>3, <1>4, <1>5, <1>6, TickKeeps, CompletedKeeps DEF MeterNext

LEMMA MeterAlways == MeterSpec => []MeterInv
<1> QED BY MeterStart, MeterStep, PTL DEF MeterSpec

LEMMA InvMeter == MeterInv => CostCountedOnce /\ NoCostLeftUnshown /\ OdometerComesToRest
<1> SUFFICES ASSUME MeterInv PROVE CostCountedOnce /\ NoCostLeftUnshown /\ OdometerComesToRest
  OBVIOUS
<1>1. CostCountedOnce
  BY DEF MeterInv, SumsUp, CostCountedOnce, CostOf, SumOver
<1>2. NoCostLeftUnshown
  BY DEF MeterInv, FlushPending, NoCostLeftUnshown
<1>3. OdometerComesToRest
  BY DEF MeterInv, Resting, OdometerComesToRest
<1> QED BY <1>1, <1>2, <1>3

(***************************************************************************)
(* The creator's earnings.                                                 *)
(***************************************************************************)

EarningsInv ==
  /\ DOMAIN payouts \subseteq DOMAIN PayoutAmount /\ IsFiniteSet(DOMAIN payouts)
  /\ clock \in Nat /\ period \in DOMAIN WINDOW_DAYS
  /\ \A p \in DOMAIN payouts : payouts[p] \in Nat /\ payouts[p] <= clock

LEMMA EarningsAlways == EarningsSpec => []EarningsInv
<1>1. EarningsInit => EarningsInv
  <2> SUFFICES ASSUME EarningsInit PROVE EarningsInv
    OBVIOUS
  <2>1. DOMAIN payouts = {} /\ clock = 0 /\ period \in DOMAIN WINDOW_DAYS
    BY DEF EarningsInit
  <2> QED BY <2>1, FS_EmptySet DEF EarningsInv
<1>2. EarningsInv /\ [EarningsNext]_earningsVars => EarningsInv'
  <2> SUFFICES ASSUME EarningsInv, [EarningsNext]_earningsVars PROVE EarningsInv'
    OBVIOUS
  <2>1. ASSUME NEW p \in DOMAIN PayoutAmount, PayoutArrives(p) PROVE EarningsInv'
    <3>1. /\ DOMAIN payouts' = DOMAIN payouts \cup {p} /\ clock' = clock /\ period' = period
          /\ \A q \in DOMAIN payouts' : payouts'[q] = IF q = p THEN clock ELSE payouts[q]
      BY <2>1 DEF PayoutArrives
    <3>2. IsFiniteSet(DOMAIN payouts \cup {p})
      BY FS_AddElement DEF EarningsInv
    <3>3. \A q \in DOMAIN payouts' : payouts'[q] \in Nat /\ payouts'[q] <= clock
      BY <3>1 DEF EarningsInv
    <3> QED BY <3>1, <3>2, <3>3 DEF EarningsInv
  <2>2. CASE HalfDayPasses
    BY <2>2, EarningsAssumption DEF HalfDayPasses, EarningsInv
  <2>3. CASE ToggleTopUp
    BY <2>3 DEF ToggleTopUp, EarningsInv
  <2>4. ASSUME NEW next \in DOMAIN WINDOW_DAYS, HandlePeriodChange(next) PROVE EarningsInv'
    BY <2>4 DEF HandlePeriodChange, EarningsInv
  <2>5. CASE UNCHANGED earningsVars
    BY <2>5 DEF earningsVars, EarningsInv
  <2> QED BY <2>1, <2>2, <2>3, <2>4, <2>5 DEF EarningsNext
<1> QED BY <1>1, <1>2, PTL DEF EarningsSpec

\* The elements of A whose key by k is in E.
Keyed(A, k, E) == {x \in A : k[x] \in E}

\* b holds, key by key, what the elements with that key weigh.
SumsByKey(b, D, A, w, k) ==
  /\ IsFiniteSet(A) /\ \A x \in A : w[x] \in Nat
  /\ IsFiniteSet(D) /\ \A d \in D : b[d] = SumOver(w, Keyed(A, k, {d}))

\* Adding up by key, key after key, adds up each element with a key among them once.
LEMMA SumByKey ==
  ASSUME NEW A, NEW w, NEW k, NEW D, NEW b, SumsByKey(b, D, A, w, k)
  PROVE  SumOver(b, D) = SumOver(w, Keyed(A, k, D))
<1> USE DEF SumsByKey
<1>0. ASSUME NEW E PROVE IsFiniteSet(Keyed(A, k, E)) /\ \A x \in Keyed(A, k, E) : w[x] \in Nat
  BY FS_Subset DEF Keyed
<1>1. \A d \in D : b[d] \in Nat
  BY <1>0, SumType
<1> DEFINE T == {E \in SUBSET D : SumOver(b, E) # SumOver(w, Keyed(A, k, E))}
<1> SUFFICES ASSUME T # {} PROVE FALSE
  BY DEF T
<1>2. PICK E \in T : \A u \in T : ~ (u \subseteq E /\ u # E)
  <2>1. T \subseteq SUBSET D
    OBVIOUS
  <2> HIDE DEF T
  <2> QED BY <2>1, SmallestSubset
<1>3. E \in SUBSET D /\ SumOver(b, E) # SumOver(w, Keyed(A, k, E)) /\ IsFiniteSet(E)
  BY FS_Subset
<1>4. CASE E = {}
  <2>1. Keyed(A, k, E) = {}
    BY <1>4 DEF Keyed
  <2>2. \A v : SumOver(v, {}) = 0
    <3> SUFFICES ASSUME NEW v PROVE SumOver(v, {}) = 0
      OBVIOUS
    <3>1. \A x \in {} : v[x] \in Nat
      OBVIOUS
    <3> QED BY <3>1, FS_EmptySet, SumType
  <2> QED BY <1>3, <1>4, <2>1, <2>2
<1>5. CASE E # {}
  <2>1. PICK d \in E : TRUE
    BY <1>5
  <2> DEFINE R == E \ {d}
  <2>2. R \in SUBSET D /\ R \subseteq E /\ R # E /\ d \in D
    BY <1>3, <2>1
  <2>3. SumOver(b, R) = SumOver(w, Keyed(A, k, R))
    <3> HIDE DEF R
    <3> QED BY <1>2, <2>2
  <2>4. SumOver(b, E) = b[d] + SumOver(b, R)
    BY <1>1, <1>3, <2>1, SumOfMore
  <2>5. /\ Keyed(A, k, E) = Keyed(A, k, {d}) \cup Keyed(A, k, R)
        /\ Keyed(A, k, {d}) \cap Keyed(A, k, R) = {}
    BY <2>1 DEF Keyed
  <2>6. SumOver(w, Keyed(A, k, {d}) \cup Keyed(A, k, R)) =
          SumOver(w, Keyed(A, k, {d})) + SumOver(w, Keyed(A, k, R))
    <3> DEFINE one == Keyed(A, k, {d})
               two == Keyed(A, k, R)
    <3>1. IsFiniteSet(one) /\ IsFiniteSet(two) /\ one \cap two = {} /\ \A x \in one \cup two : w[x] \in Nat
      BY <1>0, <2>5
    <3> HIDE DEF one, two
    <3>2. SumOver(w, one \cup two) = SumOver(w, one) + SumOver(w, two)
      BY <3>1, SumOfTwo
    <3> QED BY <3>2 DEF one, two
  <2>7. b[d] = SumOver(w, Keyed(A, k, {d}))
    BY <2>2
  <2> HIDE DEF R
  <2> QED BY <1>3, <2>3, <2>4, <2>5, <2>6, <2>7
<1> QED BY <1>4, <1>5

LEMMA DayOfIsNat == \A t \in Nat : DayOf(t) \in Nat /\ 2 * DayOf(t) <= t /\ t < 2 * DayOf(t) + 2
BY DEF DayOf

LEMMA InvEarnings == EarningsInv => BarsAddUpToTheTotal
<1> SUFFICES ASSUME EarningsInv PROVE BarsAddUpToTheTotal
  OBVIOUS
<1> DEFINE k == [p \in InPeriod |-> DayOf(payouts[p])]
           D == DOMAIN Bars
           cut == {p \in InPeriod : Window > 0 /\ DayOf(payouts[p]) + Window = DayOf(clock)}
<1>1. /\ IsFiniteSet(InPeriod) /\ InPeriod \subseteq DOMAIN payouts
      /\ \A p \in InPeriod : PayoutAmount[p] \in Nat
  BY FS_Subset, EarningsAssumption DEF EarningsInv, InPeriod
<1>2. Window \in Nat
  BY EarningsAssumption DEF EarningsInv, Window
<1>3. /\ D = IF Window = 0 THEN {k[p] : p \in InPeriod}
              ELSE {d \in 0..DayOf(clock) : d + Window > DayOf(clock)}
      /\ \A d \in D : Bars[d] = Earned({p \in InPeriod : k[p] = d})
  BY DEF Bars
<1>4. /\ DayOf(clock) \in Nat /\ clock \in Nat
      /\ 2 * DayOf(clock) <= clock /\ clock < 2 * DayOf(clock) + 2
  BY DayOfIsNat DEF EarningsInv
<1>5. \A p \in InPeriod : /\ k[p] \in Nat /\ 2 * k[p] <= payouts[p] /\ payouts[p] < 2 * k[p] + 2
                          /\ payouts[p] \in Nat /\ payouts[p] <= clock
  BY <1>1, DayOfIsNat DEF EarningsInv
<1>6. IsFiniteSet(D)
  <2>1. CASE Window = 0
    <3>1. k \in Surjection(InPeriod, D)
      BY <1>3, <2>1 DEF Surjection
    <3> HIDE DEF k, D
    <3> QED BY <1>1, <3>1, FS_Surjection DEF ExistsSurjection
  <2>2. CASE Window # 0
    <3>1. IsFiniteSet(0..DayOf(clock))
      BY <1>4, FS_Interval
    <3> QED BY <1>3, <2>2, <3>1, FS_Subset
  <2> QED BY <2>1, <2>2
<1>7. InPeriod = Keyed(InPeriod, k, D) \cup cut /\ Keyed(InPeriod, k, D) \cap cut = {}
  <2>1. CASE Window = 0
    <3>1. cut = {}
      BY <1>2, <2>1
    <3>2. Keyed(InPeriod, k, D) = InPeriod
      BY <1>3, <2>1 DEF Keyed
    <3> QED BY <3>1, <3>2
  <2>2. CASE Window # 0
    <3>1. ASSUME NEW p \in InPeriod
          PROVE  (p \in cut) <=> (k[p] \notin D)
      <4>1. payouts[p] + 2 * Window >= clock
        BY <2>2 DEF InPeriod
      <4> DEFINE day == k[p]
                 time == payouts[p]
      <4>5. /\ day \in Nat /\ time \in Nat
            /\ 2 * day <= time /\ time < 2 * day + 2 /\ time <= clock
        BY <1>5
      <4> HIDE DEF day, time
      <4>6. time + 2 * Window >= clock
        BY <4>1 DEF time
      <4>7. day + Window >= DayOf(clock) /\ day <= DayOf(clock)
        BY <1>2, <1>4, <4>5, <4>6
      <4>2. k[p] + Window >= DayOf(clock)
        BY <4>7 DEF day
      <4>3. k[p] <= DayOf(clock)
        BY <4>7 DEF day
      <4>4. k[p] \in D <=> k[p] + Window > DayOf(clock)
        BY <1>3, <1>4, <1>5, <2>2, <4>3
      <4> QED BY <1>2, <1>4, <1>5, <2>2, <4>2, <4>4
    <3> HIDE DEF k, D
    <3> QED BY <3>1 DEF Keyed
  <2> QED BY <2>1, <2>2
<1>8. SumOver(Bars, D) = SumOver(PayoutAmount, Keyed(InPeriod, k, D))
  <2>1. \A d \in D : Bars[d] = SumOver(PayoutAmount, Keyed(InPeriod, k, {d}))
    <3>1. \A d : {p \in InPeriod : k[p] = d} = Keyed(InPeriod, k, {d})
      BY DEF Keyed
    <3>2. \A S : Earned(S) = SumOver(PayoutAmount, S)
      BY DEF Earned, SumOver
    <3> HIDE DEF k, D
    <3> QED BY <1>3, <3>1, <3>2
  <2> HIDE DEF k, D
  <2> DEFINE A == InPeriod
             b == Bars
             w == PayoutAmount
  <2>2. SumsByKey(b, D, A, w, k)
    BY <1>1, <1>6, <2>1 DEF SumsByKey
  <2> HIDE DEF A, b, w
  <2>4. SumOver(b, D) = SumOver(w, Keyed(A, k, D))
    BY <2>2, SumByKey
  <2> QED BY <2>4 DEF A, b, w
<1>9. SumOver(PayoutAmount, InPeriod) = SumOver(PayoutAmount, Keyed(InPeriod, k, D)) + SumOver(PayoutAmount, cut)
  <2> DEFINE one == Keyed(InPeriod, k, D)
  <2>1. one \subseteq InPeriod /\ cut \subseteq InPeriod
    BY DEF Keyed
  <2>2. IsFiniteSet(one) /\ IsFiniteSet(cut)
    BY <1>1, <2>1, FS_Subset
  <2>3. \A x \in one \cup cut : PayoutAmount[x] \in Nat
    BY <1>1, <2>1
  <2>4. one \cap cut = {} /\ InPeriod = one \cup cut
    BY <1>7
  <2> HIDE DEF one, cut
  <2>5. SumOver(PayoutAmount, one \cup cut) = SumOver(PayoutAmount, one) + SumOver(PayoutAmount, cut)
    BY <2>2, <2>3, <2>4, SumOfTwo
  <2> QED BY <2>4, <2>5 DEF one
<1>10. Total = SumOver(PayoutAmount, InPeriod) /\ Earned(cut) = SumOver(PayoutAmount, cut)
  BY DEF Total, Earned, SumOver
<1>11. MapThenSumSet(LAMBDA d : Bars[d], DOMAIN Bars) = SumOver(Bars, D)
  BY DEF SumOver
<1> HIDE DEF D
<1> QED BY <1>8, <1>9, <1>10, <1>11 DEF BarsAddUpToTheTotal

----------------------------------------------------------------------------
(***************************************************************************)
(* The plan: its filter is a fold along the list, which keeps the          *)
(* assignments of the other tasks one each.                                *)
(***************************************************************************)

Numbers(s) == s \subseteq Nat

LastOf(s) == CHOOSE x \in s : \A y \in s : x >= y

\* The equation of the fold that passes over the assignments of a task.
Passes(g, as, t, S) ==
  g = [s \in SUBSET S |->
         IF s = {} THEN <<>>
         ELSE IF as[LastOf(s)].task = t THEN g[s \ {LastOf(s)}]
              ELSE Append(g[s \ {LastOf(s)}], as[LastOf(s)])]

LEMMA LastIsThere ==
  ASSUME NEW S, Numbers(S), IsFiniteSet(S), S # {}
  PROVE  LastOf(S) \in S /\ \A y \in S : LastOf(S) >= y
<1> DEFINE T == {s \in SUBSET S : s # {} /\ ~ \E x \in s : \A y \in s : x >= y}
<1>1. T = {}
  <2> SUFFICES ASSUME T # {} PROVE FALSE
    OBVIOUS
  <2>1. PICK s \in T : \A u \in T : ~ (u \subseteq s /\ u # s)
    <3>1. T \subseteq SUBSET S /\ T # {} /\ IsFiniteSet(S)
      OBVIOUS
    <3> HIDE DEF T
    <3>2. \E s \in T : \A u \in T : ~ (u \subseteq s /\ u # s)
      BY <3>1, SmallestSubset
    <3> QED BY <3>2
  <2>2. PICK x \in s : TRUE
    OBVIOUS
  <2> DEFINE u == s \ {x}
  <2>3. u \subseteq S /\ u \subseteq s /\ u # s /\ s \subseteq Nat
    BY DEF Numbers
  <2>4. CASE u = {}
    <3>1. \A y \in s : x >= y
      BY <2>3, <2>4
    <3> QED BY <3>1
  <2>5. CASE u # {}
    <3>1. PICK m \in u : \A y \in u : m >= y
      BY <2>1, <2>3, <2>5
    <3>2. CASE m >= x
      BY <2>3, <3>1, <3>2
    <3>3. CASE x >= m
      <4>1. \A y \in s : x >= y
        BY <2>3, <3>1, <3>3
      <4> QED BY <4>1
    <3> QED BY <2>3, <3>1, <3>2, <3>3
  <2> QED BY <2>4, <2>5
<1> QED BY <1>1 DEF LastOf

\* The equation has a solution: one for a set makes one for the set and a greater number.
LEMMA FoldPasses ==
  ASSUME NEW S, Numbers(S), IsFiniteSet(S), NEW as, NEW t
  PROVE  \E g : Passes(g, as, t, S)
<1> DEFINE T == {u \in SUBSET S : ~ \E g : Passes(g, as, t, u)}
<1> SUFFICES ASSUME T # {} PROVE FALSE
  BY DEF T
<1>1. PICK u \in T : \A v \in T : ~ (v \subseteq u /\ v # u)
  <2>1. T \subseteq SUBSET S /\ T # {} /\ IsFiniteSet(S)
    OBVIOUS
  <2> HIDE DEF T
  <2>2. \E s \in T : \A v \in T : ~ (v \subseteq s /\ v # s)
    BY <2>1, SmallestSubset
  <2> QED BY <2>2
<1>2. ASSUME NEW s \in SUBSET u, s # {}
      PROVE  LastOf(s) \in s /\ (\A y \in s : LastOf(s) >= y) /\ s \subseteq Nat
  <2>1. IsFiniteSet(s) /\ Numbers(s)
    BY FS_Subset DEF Numbers
  <2> QED BY <1>2, <2>1, LastIsThere DEF Numbers
<1>3. CASE u = {}
  <2> DEFINE h == [s \in SUBSET {} |-> <<>>]
  <2>1. Passes(h, as, t, {})
    BY DEF Passes
  <2> QED BY <1>3, <2>1
<1>4. CASE u # {}
  <2> DEFINE m == LastOf(u)
             v == u \ {m}
  <2>1. m \in u /\ \A y \in u : m >= y
    BY <1>2, <1>4
  <2>2. PICK g : Passes(g, as, t, v)
    <3>1. v \subseteq u /\ v # u /\ v \subseteq S
      BY <2>1
    <3> HIDE DEF v
    <3> QED BY <1>1, <3>1
  <2> DEFINE More(s) == IF as[m].task = t THEN g[s \ {m}] ELSE Append(g[s \ {m}], as[m])
             h == [s \in SUBSET u |-> IF m \in s THEN More(s) ELSE g[s]]
  <2>3. ASSUME NEW s \in SUBSET u
        PROVE  h[s] = IF s = {} THEN <<>>
                      ELSE IF as[LastOf(s)].task = t THEN h[s \ {LastOf(s)}]
                           ELSE Append(h[s \ {LastOf(s)}], as[LastOf(s)])
    <3>1. CASE m \in s
      <4>1. LastOf(s) = m
        <5>1. LastOf(s) \in s /\ LastOf(s) >= m
          BY <1>2, <3>1
        <5>2. LastOf(s) \in Nat /\ m \in Nat /\ m >= LastOf(s)
          BY <1>2, <2>1, <3>1, <5>1
        <5> QED BY <5>1, <5>2
      <4>2. h[s \ {m}] = g[s \ {m}]
        OBVIOUS
      <4> HIDE DEF m
      <4> QED BY <3>1, <4>1, <4>2
    <3>2. CASE m \notin s
      <4>1. s \in SUBSET v
        BY <3>2
      <4>2. h[s] = g[s] /\ \A x : h[s \ {x}] = g[s \ {x}]
        BY <3>2
      <4>3. g[s] = IF s = {} THEN <<>>
                   ELSE IF as[LastOf(s)].task = t THEN g[s \ {LastOf(s)}]
                        ELSE Append(g[s \ {LastOf(s)}], as[LastOf(s)])
        <5> HIDE DEF v
        <5> QED BY <2>2, <4>1 DEF Passes
      <4> HIDE DEF h
      <4> QED BY <4>2, <4>3
    <3> QED BY <3>1, <3>2
  <2>4. Passes(h, as, t, u)
    <3>1. h = [s \in SUBSET u |-> h[s]]
      OBVIOUS
    <3> HIDE DEF h
    <3> QED BY <2>3, <3>1 DEF Passes
  <2> QED BY <1>1, <2>4
<1> QED BY <1>3, <1>4

LEMMA PositionsAreNumbers ==
  ASSUME NEW A, NEW as \in Seq(A)
  PROVE  Numbers(DOMAIN as) /\ IsFiniteSet(DOMAIN as)
<1> DEFINE n == Len(as)
<1>1. n \in Nat /\ DOMAIN as = 1..n
  BY LenProperties
<1> HIDE DEF n
<1>2. 1 \in Int /\ n \in Int
  BY <1>1
<1>3. IsFiniteSet(1..n)
  BY <1>2, FS_Interval
<1>4. Numbers(1..n)
  BY DEF Numbers
<1> QED BY <1>1, <1>3, <1>4

LEMMA WithoutIsAFold ==
  ASSUME NEW as \in Seq(Assignments), NEW t
  PROVE  \E g : Passes(g, as, t, DOMAIN as) /\ WithoutTask(as, t) = g[DOMAIN as]
<1> DEFINE S == DOMAIN as
           Body(g) == [s \in SUBSET S |->
             IF s = {} THEN <<>>
             ELSE IF as[Max(s)].task = t THEN g[s \ {Max(s)}] ELSE Append(g[s \ {Max(s)}], as[Max(s)])]
           fold == CHOOSE g : g = Body(g)
<1>1. WithoutTask(as, t) = fold[S]
  BY DEF WithoutTask, FoldLeft, MapThenFoldSet
<1>2. \A g : Passes(g, as, t, S) <=> g = Body(g)
  BY DEF Passes, LastOf, Max
<1>3. \E g : Passes(g, as, t, S)
  <2>1. Numbers(S) /\ IsFiniteSet(S)
    BY PositionsAreNumbers
  <2> HIDE DEF S
  <2> QED BY <2>1, FoldPasses
<1> HIDE DEF Body
<1>4. fold = Body(fold)
  BY <1>2, <1>3
<1>5. Passes(fold, as, t, S)
  BY <1>2, <1>4
<1> QED BY <1>1, <1>5

\* Each task has at most one assignment in the list.
OneEach(as) == \A i, j \in DOMAIN as : as[i].task = as[j].task => i = j

\* r holds assignments of as from the positions p, in any order, none of the task t.
From(r, as, p, t) ==
  /\ r \in Seq(Assignments) /\ OneEach(r)
  /\ \A i \in DOMAIN r : r[i].task # t /\ \E j \in p : r[i] = as[j]

LEMMA AppendedIsFrom ==
  ASSUME NEW as \in Seq(Assignments), OneEach(as), NEW t, NEW p, p \subseteq DOMAIN as, NEW m \in DOMAIN as,
         m \notin p, as[m].task # t, NEW r, From(r, as, p, t)
  PROVE  From(Append(r, as[m]), as, p \cup {m}, t)
<1> DEFINE a == as[m]
           q == Append(r, a)
<1>1. a \in Assignments /\ r \in Seq(Assignments)
  <2>1. m \in 1..Len(as)
    BY LenProperties
  <2> QED BY <2>1, ElementOfSeq DEF From
<1>2. /\ q \in Seq(Assignments) /\ Len(q) = Len(r) + 1 /\ q[Len(r) + 1] = a
      /\ \A i \in 1..Len(r) : q[i] = r[i]
  <2> HIDE DEF a
  <2> QED BY <1>1, AppendProperties
<1>3. Len(r) \in Nat /\ DOMAIN r = 1..Len(r) /\ DOMAIN q = 1..Len(r) + 1
  BY <1>1, <1>2
<1> HIDE DEF q
<1>4. \A i \in 1..Len(r) : r[i].task # a.task
  <2> SUFFICES ASSUME NEW i \in 1..Len(r), r[i].task = a.task PROVE FALSE
    OBVIOUS
  <2>1. PICK j \in p : r[i] = as[j]
    BY <1>3 DEF From
  <2> QED BY <2>1 DEF OneEach
<1>5. OneEach(q)
  <2> SUFFICES ASSUME NEW i \in 1..Len(r) + 1, NEW j \in 1..Len(r) + 1, q[i].task = q[j].task
               PROVE  i = j
    BY <1>3 DEF OneEach
  <2>1. (i \in 1..Len(r) \/ i = Len(r) + 1) /\ (j \in 1..Len(r) \/ j = Len(r) + 1)
    BY <1>3
  <2>2. CASE i \in 1..Len(r) /\ j \in 1..Len(r)
    BY <1>2, <1>3, <2>2 DEF From, OneEach
  <2> HIDE DEF a
  <2>3. CASE i \in 1..Len(r) /\ j = Len(r) + 1
    BY <1>2, <1>4, <2>3
  <2>4. CASE i = Len(r) + 1 /\ j \in 1..Len(r)
    BY <1>2, <1>4, <2>4
  <2> QED BY <2>1, <2>2, <2>3, <2>4
<1>6. ASSUME NEW i \in DOMAIN q PROVE q[i].task # t /\ \E j \in p \cup {m} : q[i] = as[j]
  <2>1. CASE i = Len(r) + 1
    BY <1>2, <2>1
  <2>2. CASE i \in 1..Len(r)
    BY <1>2, <1>3, <2>2 DEF From
  <2>3. i = Len(r) + 1 \/ i \in 1..Len(r)
    BY <1>3
  <2> QED BY <2>1, <2>2, <2>3
<1> QED BY <1>2, <1>5, <1>6 DEF From, q

\* The filter keeps what one task each has, and nothing of t.
LEMMA WithoutKeeps ==
  ASSUME NEW as \in Seq(Assignments), OneEach(as), NEW t
  PROVE  From(WithoutTask(as, t), as, DOMAIN as, t)
<1> DEFINE S == DOMAIN as
<1>1. Numbers(S) /\ IsFiniteSet(S)
  BY PositionsAreNumbers
<1>2. PICK g : Passes(g, as, t, S) /\ WithoutTask(as, t) = g[S]
  BY WithoutIsAFold
<1> HIDE DEF S
<1> DEFINE T == {u \in SUBSET S : ~ From(g[u], as, u, t)}
<1>3. T = {}
  <2> SUFFICES ASSUME T # {} PROVE FALSE
    OBVIOUS
  <2>1. PICK u \in T : \A v \in T : ~ (v \subseteq u /\ v # u)
    <3>1. T \subseteq SUBSET S
      OBVIOUS
    <3> HIDE DEF T
    <3> QED BY <1>1, <3>1, SmallestSubset
  <2>2. g[u] = IF u = {} THEN <<>>
               ELSE IF as[LastOf(u)].task = t THEN g[u \ {LastOf(u)}]
                    ELSE Append(g[u \ {LastOf(u)}], as[LastOf(u)])
    BY <1>2 DEF Passes
  <2>3. CASE u = {}
    <3>1. From(<<>>, as, u, t)
      BY DEF From, OneEach
    <3> QED BY <2>2, <2>3, <3>1
  <2>4. CASE u # {}
    <3> DEFINE m == LastOf(u)
               v == u \ {m}
    <3>1. m \in u
      <4>1. IsFiniteSet(u) /\ Numbers(u)
        BY <1>1, FS_Subset DEF Numbers
      <4> QED BY <2>4, <4>1, LastIsThere
    <3>2. From(g[v], as, v, t)
      <4>1. v \subseteq u /\ v # u /\ v \subseteq S
        BY <3>1
      <4> HIDE DEF v
      <4> QED BY <2>1, <4>1
    <3>3. u \subseteq DOMAIN as /\ v \subseteq DOMAIN as /\ m \notin v /\ m \in DOMAIN as /\ u = v \cup {m}
      BY <3>1 DEF S
    <3>4. g[u] = IF as[m].task = t THEN g[v] ELSE Append(g[v], as[m])
      BY <2>2, <2>4
    <3> HIDE DEF m, v
    <3>5. CASE as[m].task = t
      <4>1. From(g[v], as, u, t)
        BY <3>2, <3>3 DEF From
      <4> QED BY <3>4, <3>5, <4>1
    <3>6. CASE as[m].task # t
      <4>1. From(Append(g[v], as[m]), as, v \cup {m}, t)
        BY <3>2, <3>3, <3>6, AppendedIsFrom
      <4> QED BY <3>3, <3>4, <3>6, <4>1
    <3> QED BY <3>5, <3>6
  <2> QED BY <2>3, <2>4
<1> QED BY <1>2, <1>3 DEF S

PlanInv == plan \in Seq(Assignments) /\ OneEach(plan) /\ OnlyAnthropicIsLive

\* The policy leaves tasks and vendors alone and marks each assignment by its vendor.
LEMMA PolicyMarks ==
  ASSUME NEW as \in Seq(Assignments), OneEach(as)
  PROVE  LET marked == EnforceMockPolicy(as)
         IN  /\ marked \in Seq(Assignments) /\ OneEach(marked)
             /\ \A i \in DOMAIN marked : (marked[i].status = "real") <=> (marked[i].vendor = Live)
<1> DEFINE marked == EnforceMockPolicy(as)
<1>1. Len(as) \in Nat /\ DOMAIN as = 1..Len(as) /\ \A i \in 1..Len(as) : as[i] \in Assignments
  BY LenProperties, ElementOfSeq
<1>2. ASSUME NEW a \in Assignments
      PROVE  LET b == [a EXCEPT !.status = NormaliseExecutionStatus(a.vendor)]
             IN  b \in Assignments /\ b.task = a.task /\ ((b.status = "real") <=> (b.vendor = Live))
  BY DEF Assignments, NormaliseExecutionStatus, IsMockVendor
<1>3. /\ DOMAIN marked = 1..Len(as)
      /\ \A i \in 1..Len(as) : marked[i] = [as[i] EXCEPT !.status = NormaliseExecutionStatus(as[i].vendor)]
  BY <1>1 DEF EnforceMockPolicy
<1>4. marked = [i \in 1..Len(as) |-> marked[i]]
  BY <1>1 DEF EnforceMockPolicy
<1> HIDE DEF marked
<1>5. \A i \in 1..Len(as) : /\ marked[i] \in Assignments /\ marked[i].task = as[i].task
                            /\ (marked[i].status = "real") <=> (marked[i].vendor = Live)
  <2> SUFFICES ASSUME NEW i \in 1..Len(as)
               PROVE  /\ marked[i] \in Assignments /\ marked[i].task = as[i].task
                      /\ (marked[i].status = "real") <=> (marked[i].vendor = Live)
    OBVIOUS
  <2> DEFINE a == as[i]
             b == [a EXCEPT !.status = NormaliseExecutionStatus(a.vendor)]
  <2>1. a \in Assignments /\ marked[i] = b
    BY <1>1, <1>3
  <2>2. b \in Assignments /\ b.task = a.task /\ ((b.status = "real") <=> (b.vendor = Live))
    <3> HIDE DEF a
    <3> QED BY <1>2, <2>1
  <2> HIDE DEF b
  <2> QED BY <2>1, <2>2
<1>6. marked \in Seq(Assignments)
  <2> DEFINE n == Len(as)
  <2>1. marked \in [1..n -> Assignments] /\ n \in Nat
    BY <1>1, <1>4, <1>5
  <2> HIDE DEF n
  <2> QED BY <2>1, SeqDef
<1>7. OneEach(marked)
  BY <1>1, <1>3, <1>5 DEF OneEach
<1> QED BY <1>3, <1>5, <1>6, <1>7 DEF marked

LEMMA PlanAlways == PlanSpec => []PlanInv
<1>1. PlanInit => PlanInv
  <2> SUFFICES ASSUME PlanInit PROVE PlanInv
    OBVIOUS
  <2>1. FirstPlan \in Seq(Assignments) /\ OneEach(FirstPlan)
    BY VendorPlanAssumption DEF OneEach
  <2>2. plan = EnforceMockPolicy(FirstPlan)
    BY DEF PlanInit
  <2> QED BY <2>1, <2>2, PolicyMarks DEF PlanInv, OnlyAnthropicIsLive
<1>2. PlanInv /\ [PlanNext]_planVars => PlanInv'
  <2> SUFFICES ASSUME PlanInv, [PlanNext]_planVars PROVE PlanInv'
    OBVIOUS
  <2>1. ASSUME NEW t \in Tasks, NEW v \in PanelVendors, HandleCellActivate(t, v) PROVE PlanInv'
    <3> DEFINE r == WithoutTask(plan, t)
               a == [task |-> t, vendor |-> v, status |-> NormaliseExecutionStatus(v)]
               next == Append(r, a)
    <3>1. plan' = EnforceMockPolicy(next)
      BY <2>1 DEF HandleCellActivate, HandleToggle, BuildNextAssignments
    <3>2. From(r, plan, DOMAIN plan, t)
      BY WithoutKeeps DEF PlanInv
    <3>3. a \in Assignments /\ a.task = t
      BY DEF PanelVendors, Assignments, NormaliseExecutionStatus
    <3>4. r \in Seq(Assignments) /\ OneEach(r) /\ \A i \in DOMAIN r : r[i].task # t
      BY <3>2 DEF From
    <3>5. Len(r) \in Nat /\ DOMAIN r = 1..Len(r)
      BY <3>4
    <3> HIDE DEF r, a
    <3>6. /\ next \in Seq(Assignments) /\ Len(next) = Len(r) + 1 /\ next[Len(r) + 1] = a
          /\ \A i \in 1..Len(r) : next[i] = r[i]
      BY <3>3, <3>4, AppendProperties
    <3>7. DOMAIN next = 1..Len(r) + 1
      BY <3>6
    <3> HIDE DEF next
    <3>8. OneEach(next)
      <4> SUFFICES ASSUME NEW i \in 1..Len(r) + 1, NEW j \in 1..Len(r) + 1, next[i].task = next[j].task
                   PROVE  i = j
        BY <3>7 DEF OneEach
      <4>1. (i \in 1..Len(r) \/ i = Len(r) + 1) /\ (j \in 1..Len(r) \/ j = Len(r) + 1)
        BY <3>5
      <4>2. CASE i \in 1..Len(r) /\ j \in 1..Len(r)
        BY <3>4, <3>5, <3>6, <4>2 DEF OneEach
      <4>3. CASE i \in 1..Len(r) /\ j = Len(r) + 1
        BY <3>3, <3>4, <3>5, <3>6, <4>3
      <4>4. CASE i = Len(r) + 1 /\ j \in 1..Len(r)
        BY <3>3, <3>4, <3>5, <3>6, <4>4
      <4> QED BY <4>1, <4>2, <4>3, <4>4
    <3> QED BY <3>1, <3>6, <3>8, PolicyMarks DEF PlanInv, OneEach, OnlyAnthropicIsLive
  <2>2. CASE UNCHANGED planVars
    BY <2>2 DEF planVars, PlanInv, OneEach, OnlyAnthropicIsLive
  <2> QED BY <2>1, <2>2 DEF PlanNext
<1> QED BY <1>1, <1>2, PTL DEF PlanSpec

LEMMA InvPlan == PlanInv => PlanIsSound
BY DEF PlanInv, OneEach, PlanIsSound, OneVendorPerTask

----------------------------------------------------------------------------
(***************************************************************************)
(* The editor of the demo: the turn edited and the turn shown are firsts   *)
(* of the intent's messages, the same one as soon as an edit went through. *)
(***************************************************************************)

LEMMA LeastIsThere ==
  ASSUME NEW S, Numbers(S), IsFiniteSet(S), S # {}
  PROVE  Min(S) \in S /\ \A y \in S : Min(S) <= y
<1> DEFINE T == {s \in SUBSET S : s # {} /\ ~ \E x \in s : \A y \in s : x <= y}
<1>1. T = {}
  <2> SUFFICES ASSUME T # {} PROVE FALSE
    OBVIOUS
  <2>1. PICK s \in T : \A u \in T : ~ (u \subseteq s /\ u # s)
    <3>1. T \subseteq SUBSET S /\ T # {} /\ IsFiniteSet(S)
      OBVIOUS
    <3> HIDE DEF T
    <3>2. \E s \in T : \A u \in T : ~ (u \subseteq s /\ u # s)
      BY <3>1, SmallestSubset
    <3> QED BY <3>2
  <2>2. PICK x \in s : TRUE
    OBVIOUS
  <2> DEFINE u == s \ {x}
  <2>3. u \subseteq S /\ u \subseteq s /\ u # s /\ s \subseteq Nat
    BY DEF Numbers
  <2>4. CASE u = {}
    <3>1. \A y \in s : x <= y
      BY <2>3, <2>4
    <3> QED BY <3>1
  <2>5. CASE u # {}
    <3>1. PICK m \in u : \A y \in u : m <= y
      BY <2>1, <2>3, <2>5
    <3>2. CASE m <= x
      BY <2>3, <3>1, <3>2
    <3>3. CASE x <= m
      <4>1. \A y \in s : x <= y
        BY <2>3, <3>1, <3>3
      <4> QED BY <4>1
    <3> QED BY <2>3, <3>1, <3>2, <3>3
  <2> QED BY <2>4, <2>5
<1> QED BY <1>1 DEF Min

AnyIntent == [id : STRING, messages : Seq(IntentMessages), format : STRING]

HasAText(m) == IsUser(m) /\ m.text # NoText

\* k is the first position of ms that Chosen marks, or 0.
FirstOf(k, ms, chosen) ==
  \/ k = 0 /\ \A i \in 1..Len(ms) : ~chosen[i]
  \/ k \in 1..Len(ms) /\ chosen[k] /\ \A i \in 1..k - 1 : ~chosen[i]

LEMMA FirstOfThem ==
  ASSUME NEW ms \in Seq(IntentMessages), NEW chosen
  PROVE  FirstOf(LET I == {i \in 1..Len(ms) : chosen[i]} IN IF I # {} THEN Min(I) ELSE 0, ms, chosen)
<1> DEFINE n == Len(ms)
           I == {i \in 1..n : chosen[i]}
<1>1. n \in Nat
  BY LenProperties
<1>2. CASE I = {}
  BY <1>2 DEF FirstOf
<1>3. CASE I # {}
  <2>1. Numbers(I) /\ IsFiniteSet(I)
    <3> HIDE DEF n
    <3>1. 1 \in Int /\ n \in Int
      BY <1>1
    <3>2. IsFiniteSet(1..n)
      BY <3>1, FS_Interval
    <3>3. I \subseteq 1..n
      OBVIOUS
    <3>4. IsFiniteSet(I)
      <4> HIDE DEF I
      <4> QED BY <3>2, <3>3, FS_Subset
    <3> QED BY <3>4 DEF Numbers
  <2>2. Min(I) \in I /\ \A y \in I : Min(I) <= y
    <3> HIDE DEF I
    <3> QED BY <1>3, <2>1, LeastIsThere
  <2> DEFINE k == Min(I)
  <2>3. k \in 1..n /\ chosen[k] /\ \A y \in 1..n : chosen[y] => k <= y
    BY <2>2
  <2> HIDE DEF k, I
  <2>4. \A i \in 1..k - 1 : ~chosen[i]
    <3> SUFFICES ASSUME NEW i \in 1..k - 1, chosen[i] PROVE FALSE
      OBVIOUS
    <3>1. i \in 1..n /\ i < k
      BY <1>1, <2>3
    <3> HIDE DEF n
    <3> QED BY <1>1, <2>3, <3>1
  <2>5. FirstOf(k, ms, chosen)
    BY <2>3, <2>4 DEF FirstOf
  <2> QED BY <1>3, <2>5 DEF k, I
<1> QED BY <1>2, <1>3

\* One position is the first.
LEMMA FirstIsOne ==
  ASSUME NEW ms \in Seq(IntentMessages), NEW chosen, NEW j, NEW k, FirstOf(j, ms, chosen), FirstOf(k, ms, chosen)
  PROVE  j = k
<1>1. Len(ms) \in Nat
  BY LenProperties
<1> DEFINE n == Len(ms)
<1> HIDE DEF n
<1>2. n \in Nat
  BY <1>1 DEF n
<1> QED BY <1>2 DEF FirstOf, n

LEMMA EditedIsFirst ==
  ASSUME NEW intent \in AnyIntent
  PROVE  LET ms == intent.messages
         IN  /\ FirstOf(EditedTurn(intent), ms, [i \in 1..Len(ms) |-> IsUser(ms[i]) /\ ms[i].text # NoText])
             /\ FirstOf(ShownTurn(intent), ms, [i \in 1..Len(ms) |-> IsUser(ms[i]) /\ HasText(ms[i])])
<1> DEFINE ms == intent.messages
           e == [i \in 1..Len(ms) |-> IsUser(ms[i]) /\ ms[i].text # NoText]
           h == [i \in 1..Len(ms) |-> IsUser(ms[i]) /\ HasText(ms[i])]
<1>1. ms \in Seq(IntentMessages)
  BY DEF AnyIntent
<1>2. {i \in 1..Len(ms) : e[i]} = {i \in 1..Len(ms) : IsUser(ms[i]) /\ ms[i].text # NoText}
  OBVIOUS
<1>3. {i \in 1..Len(ms) : h[i]} = {i \in 1..Len(ms) : IsUser(ms[i]) /\ HasText(ms[i])}
  OBVIOUS
<1>4. EditedTurn(intent) = LET I == {i \in 1..Len(ms) : e[i]} IN IF I # {} THEN Min(I) ELSE 0
  BY <1>2 DEF EditedTurn, SelectInSeq
<1>5. ShownTurn(intent) = LET I == {i \in 1..Len(ms) : h[i]} IN IF I # {} THEN Min(I) ELSE 0
  BY <1>3 DEF ShownTurn, SelectInSeq
<1> HIDE DEF e, h
<1>6. FirstOf(EditedTurn(intent), ms, e)
  <2>1. FirstOf(LET I == {i \in 1..Len(ms) : e[i]} IN IF I # {} THEN Min(I) ELSE 0, ms, e)
    BY <1>1, FirstOfThem
  <2> QED BY <1>4, <2>1
<1>7. FirstOf(ShownTurn(intent), ms, h)
  <2>1. FirstOf(LET I == {i \in 1..Len(ms) : h[i]} IN IF I # {} THEN Min(I) ELSE 0, ms, h)
    BY <1>1, FirstOfThem
  <2> QED BY <1>5, <2>1
<1> QED BY <1>6, <1>7 DEF e, h

LEMMA BeforeIt ==
  ASSUME NEW n \in Nat, NEW k \in 1..n, NEW i \in 1..k - 1
  PROVE  i \in 1..n /\ i # k
OBVIOUS

\* ns is ms with m for the turn k.
ReplacedAt(ns, ms, k, m) ==
  /\ ms \in Seq(IntentMessages) /\ k \in 1..Len(ms) /\ m \in IntentMessages
  /\ ns = [ms EXCEPT ![k] = m]

DiffersAt(ns, ms, k, m) == \A i \in 1..Len(ms) : ns[i] = IF i = k THEN m ELSE ms[i]

LEMMA OneTurnChanged ==
  ASSUME NEW ns, NEW ms, NEW k, NEW m, ReplacedAt(ns, ms, k, m)
  PROVE  ns \in Seq(IntentMessages) /\ Len(ns) = Len(ms) /\ DiffersAt(ns, ms, k, m)
<1>1. ms \in Seq(IntentMessages) /\ k \in 1..Len(ms) /\ m \in IntentMessages
  BY DEF ReplacedAt
<1>2. [ms EXCEPT ![k] = m] \in Seq(IntentMessages) /\ Len([ms EXCEPT ![k] = m]) = Len(ms)
  BY <1>1, ExceptSeq
<1>3. DOMAIN ms = 1..Len(ms)
  BY <1>1, LenProperties
<1>4. \A i \in 1..Len(ms) : [ms EXCEPT ![k] = m][i] = IF i = k THEN m ELSE ms[i]
  BY <1>3
<1> QED BY <1>2, <1>4 DEF ReplacedAt, DiffersAt

\* An edit that goes through: the turn edited is the turn shown, and nothing else changes.
LEMMA ReplaceKeeps ==
  ASSUME NEW intent \in AnyIntent, NEW text \in STRING, text # "", text # NoText
  PROVE  LET next == ReplaceFirstUserText(intent, text)
             k == EditedTurn(intent)
         IN  /\ next \in AnyIntent /\ next.id = intent.id
             /\ Len(next.messages) = Len(intent.messages)
             /\ \A i \in 1..Len(intent.messages) : i # k => next.messages[i] = intent.messages[i]
             /\ EditedTurn(next) = k
             /\ k # 0 => FindFirstUserText(next) = text
<1> DEFINE next == ReplaceFirstUserText(intent, text)
           k == EditedTurn(intent)
           ms == intent.messages
           n == Len(ms)
           e == [i \in 1..n |-> IsUser(ms[i]) /\ ms[i].text # NoText]
<1>1. n \in Nat /\ ms \in Seq(IntentMessages) /\ DOMAIN ms = 1..n /\ \A i \in 1..n : ms[i] \in IntentMessages
  <2>1. ms \in Seq(IntentMessages)
    BY DEF AnyIntent
  <2> QED BY <2>1, LenProperties, ElementOfSeq
<1>2. FirstOf(k, ms, e)
  BY EditedIsFirst
<1>3. CASE k = 0
  <2>1. next = intent
    BY <1>3 DEF ReplaceFirstUserText
  <2> HIDE DEF next
  <2> QED BY <1>3, <2>1 DEF next
<1>4. CASE k # 0
  <2>1. k \in 1..n /\ e[k] /\ \A i \in 1..k - 1 : ~e[i]
    <3> HIDE DEF e, k
    <3> QED BY <1>2, <1>4 DEF FirstOf
  <2> DEFINE m == [ms[k] EXCEPT !.text = text]
             ns == [ms EXCEPT ![k] = m]
  <2>2. m \in IntentMessages /\ m.text = text /\ m.role = ms[k].role
    <3> DEFINE o == ms[k]
    <3>1. o \in IntentMessages
      BY <1>1, <2>1
    <3> HIDE DEF o
    <3>2. [o EXCEPT !.text = text] \in IntentMessages /\ [o EXCEPT !.text = text].text = text
          /\ [o EXCEPT !.text = text].role = o.role
      BY <3>1 DEF IntentMessages
    <3> QED BY <3>2 DEF o
  <2>3. IsUser(m) /\ HasText(m)
    BY <2>1, <2>2 DEF IsUser, HasText
  <2> HIDE DEF m
  <2>4. /\ ns \in Seq(IntentMessages) /\ Len(ns) = n
        /\ \A i \in 1..n : ns[i] = IF i = k THEN m ELSE ms[i]
    <3>1. ReplacedAt(ns, ms, k, m) /\ n = Len(ms)
      BY <1>1, <2>1, <2>2 DEF ReplacedAt
    <3> HIDE DEF k, ms, n, e, ns
    <3>2. ns \in Seq(IntentMessages)
      BY <3>1, OneTurnChanged
    <3>3. Len(ns) = Len(ms)
      BY <3>1, OneTurnChanged
    <3>4. \A i \in 1..Len(ms) : ns[i] = IF i = k THEN m ELSE ms[i]
      <4>1. DiffersAt(ns, ms, k, m)
        BY <3>1, OneTurnChanged
      <4> QED BY <4>1 DEF DiffersAt
    <3> QED BY <3>1, <3>2, <3>3, <3>4
  <2>5. next = [intent EXCEPT !.messages = ns]
    BY <1>4 DEF ReplaceFirstUserText, m, AnyIntent
  <2> HIDE DEF ns
  <2>6. next \in AnyIntent /\ next.id = intent.id /\ next.messages = ns
    <3> HIDE DEF next
    <3> QED BY <2>4, <2>5 DEF AnyIntent
  <2> HIDE DEF next
  <2> DEFINE f == [i \in 1..n |-> IsUser(ns[i]) /\ ns[i].text # NoText]
             h == [i \in 1..n |-> IsUser(ns[i]) /\ HasText(ns[i])]
  <2>61. \A i \in 1..k - 1 : i \in 1..n /\ (~IsUser(ns[i]) \/ ns[i].text = NoText)
    <3> HIDE DEF f, h
    <3> SUFFICES ASSUME NEW i \in 1..k - 1
                 PROVE  i \in 1..n /\ (~IsUser(ns[i]) \/ ns[i].text = NoText)
      OBVIOUS
    <3>1. k \in 1..n /\ n \in Nat
      BY <1>1, <2>1
    <3>2. i \in 1..n /\ i # k
      <4> HIDE DEF k, n
      <4> QED BY <3>1, BeforeIt
    <3>3. ns[i] = ms[i] /\ ~e[i]
      <4>1. ~e[i]
        <5> HIDE DEF e
        <5> QED BY <2>1
      <4> HIDE DEF e
      <4> QED BY <2>4, <3>2, <4>1
    <3> QED BY <3>2, <3>3
  <2>7. FirstOf(EditedTurn(next), ns, f) /\ FirstOf(ShownTurn(next), ns, h)
    BY <2>4, <2>6, EditedIsFirst
  <2>8. FirstOf(k, ns, f)
    <3>1. f[k]
      BY <2>1, <2>3, <2>4, <2>2
    <3>2. \A i \in 1..k - 1 : ~f[i]
      BY <2>61
    <3> HIDE DEF f, k
    <3> QED BY <2>1, <2>4, <3>1, <3>2 DEF FirstOf
  <2>9. FirstOf(k, ns, h)
    <3>1. h[k]
      BY <2>1, <2>3, <2>4
    <3>2. \A i \in 1..k - 1 : ~h[i]
      BY <2>61 DEF HasText
    <3> HIDE DEF h, k
    <3> QED BY <2>1, <2>4, <3>1, <3>2 DEF FirstOf
  <2> HIDE DEF f, h, k
  <2>10. EditedTurn(next) = k
    BY <2>4, <2>7, <2>8, FirstIsOne
  <2>11. ShownTurn(next) = k
    BY <2>4, <2>7, <2>9, FirstIsOne
  <2>12. FindFirstUserText(next) = text
    BY <1>4, <2>1, <2>2, <2>4, <2>6, <2>11 DEF FindFirstUserText
  <2> QED BY <2>4, <2>6, <2>10, <2>12 DEF k, next
<1> QED BY <1>3, <1>4

Ids == STRING
Texts == STRING \cup {""}

\* One more intent announced.
LEMMA OneAnnounced ==
  ASSUME NEW s \in Seq(Ids), NEW x \in Ids
  PROVE  LET q == Append(s, x)
         IN  /\ q \in Seq(Ids) /\ q # <<>> /\ Len(q) = Len(s) + 1 /\ q[Len(s) + 1] = x
             /\ \A i \in 1..Len(s) : q[i] = s[i]
BY AppendProperties

LEMMA FirstAnnounced ==
  ASSUME NEW x \in Ids
  PROVE  LET q == <<x>> IN q \in Seq(Ids) /\ q # <<>> /\ Len(q) = 1 /\ q[1] = x
OBVIOUS

Demos == [given : AnyIntent, intent : AnyIntent, editable : BOOLEAN, draft : Texts,
          error : {"none", "empty", "invalid"}, said : Texts \cup {NoText}]

\* The two intents differ at the turn edited alone, which is the same one in both.
DemoInv ==
  /\ demo \in Demos /\ demo.draft # NoText
  /\ demo.intent.id = demo.given.id /\ EditedTurn(demo.intent) = EditedTurn(demo.given)
  /\ EditChangesTheShownTurn
  /\ rendered \in Seq(Ids) /\ rendered # <<>> /\ RenderedOncePerIntent

LEMMA ShownIsText ==
  ASSUME NEW intent \in AnyIntent
  PROVE  FindFirstUserText(intent) \in Texts /\ FindFirstUserText(intent) # NoText
<1> DEFINE k == ShownTurn(intent)
           ms == intent.messages
           h == [i \in 1..Len(ms) |-> IsUser(ms[i]) /\ HasText(ms[i])]
<1>1. FirstOf(k, ms, h)
  BY EditedIsFirst
<1>2. ms \in Seq(IntentMessages)
  BY DEF AnyIntent
<1>3. k # 0 => k \in 1..Len(ms) /\ HasText(ms[k])
  BY <1>1 DEF FirstOf
<1>4. k # 0 => ms[k] \in IntentMessages
  BY <1>2, <1>3, ElementOfSeq
<1>5. k # 0 => ms[k].text \in STRING /\ ms[k].text # NoText
  BY <1>3, <1>4 DEF HasText, IntentMessages
<1>6. CASE k = 0
  <2>1. FindFirstUserText(intent) = ""
    BY <1>6 DEF FindFirstUserText
  <2> HIDE DEF k, ms, h
  <2>2. "" # NoText
    BY DEF NoText
  <2> QED BY <2>1, <2>2 DEF Texts
<1>7. CASE k # 0
  <2>1. FindFirstUserText(intent) = ms[k].text
    BY <1>7 DEF FindFirstUserText
  <2> HIDE DEF k, ms, h
  <2> QED BY <1>5, <1>7, <2>1 DEF Texts
<1> QED BY <1>6, <1>7

LEMMA FreshStands ==
  ASSUME NEW intent \in AnyIntent, NEW editable \in BOOLEAN
  PROVE  LET d == Fresh(intent, editable)
         IN  /\ d \in Demos /\ d.draft # NoText /\ d.given = intent /\ d.intent = intent
             /\ d.said = NoText
<1> DEFINE t == FindFirstUserText(intent)
<1>1. t \in Texts /\ t # NoText
  BY ShownIsText
<1> HIDE DEF t
<1> QED BY <1>1 DEF Fresh, Demos, t

LEMMA DemoAlways == DemoSpec => []DemoInv
<1>0. \A intent \in Intents \cup {PREBAKED_INTENT} : intent \in AnyIntent
  BY DemoAssumption DEF AnyIntent
<1>1. DemoInit => DemoInv
  <2> SUFFICES ASSUME DemoInit PROVE DemoInv
    OBVIOUS
  <2>1. PICK i \in Intents \cup {PREBAKED_INTENT}, e \in BOOLEAN : demo = Fresh(i, e)
    BY DEF DemoInit
  <2>2. i \in AnyIntent
    BY <1>0
  <2>3. demo \in Demos /\ demo.draft # NoText /\ demo.given = i /\ demo.intent = i /\ demo.said = NoText
    BY <2>1, <2>2, FreshStands
  <2>4. EditChangesTheShownTurn
    BY <2>3 DEF EditChangesTheShownTurn
  <2>5. rendered = <<demo.intent.id>> /\ demo.intent.id \in Ids
    BY <2>2, <2>3 DEF DemoInit, AnyIntent, Ids
  <2>6. rendered \in Seq(Ids) /\ rendered # <<>> /\ RenderedOncePerIntent
    <3> DEFINE x == demo.intent.id
    <3>1. rendered = <<x>> /\ x \in Ids
      BY <2>5
    <3> HIDE DEF x
    <3>2. rendered \in Seq(Ids) /\ rendered # <<>> /\ Len(rendered) = 1 /\ rendered[1] = x
      BY <3>1, FirstAnnounced
    <3> QED BY <3>2 DEF RenderedOncePerIntent, Last, x
  <2> QED BY <2>3, <2>4, <2>6 DEF DemoInv
<1>2. DemoInv /\ [DemoNext]_demoVars => DemoInv'
  <2> SUFFICES ASSUME DemoInv, [DemoNext]_demoVars PROVE DemoInv'
    OBVIOUS
  <2>1. CASE IntentHandedIn
    <3> DEFINE p == PREBAKED_INTENT
               d == Fresh(p, demo.editable)
    <3>1. p \in AnyIntent /\ demo.editable \in BOOLEAN /\ demo.error \in {"none", "empty", "invalid"}
      BY <1>0 DEF DemoInv, Demos
    <3>2. /\ d \in Demos /\ d.draft # NoText /\ d.given = p /\ d.intent = p /\ d.said = NoText
      BY <3>1, FreshStands
    <3>3. demo' = [d EXCEPT !.error = demo.error]
      BY <2>1 DEF IntentHandedIn
    <3> HIDE DEF d
    <3>4. /\ demo' \in Demos /\ demo'.draft # NoText /\ demo'.given = p /\ demo'.intent = p
          /\ demo'.said = NoText
      BY <3>1, <3>2, <3>3 DEF Demos
    <3>5. EditChangesTheShownTurn'
      BY <3>4 DEF EditChangesTheShownTurn
    <3> DEFINE n == Len(rendered)
    <3>6. /\ rendered \in Seq(Ids) /\ n \in Nat \ {0} /\ p.id \in Ids
          /\ \A i \in 1..n - 1 : rendered[i] # rendered[i + 1]
      <4>1. rendered \in Seq(Ids) /\ rendered # <<>>
        BY DEF DemoInv
      <4>2. n \in Nat /\ n # 0
        BY <4>1, EmptySeq, LenProperties
      <4> QED BY <3>1, <4>1, <4>2 DEF DemoInv, RenderedOncePerIntent, AnyIntent, Ids
    <3>7. rendered' \in Seq(Ids) /\ rendered' # <<>> /\ RenderedOncePerIntent'
      <4>1. CASE rendered[n] = p.id
        <5>1. rendered' = rendered
          BY <2>1, <4>1 DEF IntentHandedIn, Last
        <5> QED BY <3>4, <3>6, <4>1, <5>1 DEF RenderedOncePerIntent, Last, DemoInv
      <4>2. CASE rendered[n] # p.id
        <5> DEFINE x == p.id
                   s == rendered
                   q == Append(s, x)
        <5>1. rendered' = q
          BY <2>1, <4>2 DEF IntentHandedIn, Last
        <5> HIDE DEF x
        <5>2. s \in Seq(Ids) /\ x \in Ids
          BY <3>6 DEF x
        <5>3. /\ q \in Seq(Ids) /\ Len(q) = n + 1 /\ q[n + 1] = x /\ q # <<>>
              /\ \A i \in 1..n : q[i] = s[i]
          BY <5>2, OneAnnounced
        <5> HIDE DEF q
        <5>4. \A i \in 1..(n + 1) - 1 : q[i] # q[i + 1]
          <6> SUFFICES ASSUME NEW i \in 1..(n + 1) - 1 PROVE q[i] # q[i + 1]
            OBVIOUS
          <6>1. i \in 1..n - 1 \/ i = n
            BY <3>6
          <6>2. CASE i = n
            BY <3>6, <4>2, <5>3, <6>2 DEF x
          <6>3. CASE i \in 1..n - 1
            <7>1. i \in 1..n /\ i + 1 \in 1..n
              BY <3>6, <6>3
            <7> QED BY <3>6, <5>3, <6>3, <7>1
          <6> QED BY <6>1, <6>2, <6>3
        <5> QED BY <3>4, <5>1, <5>3, <5>4 DEF RenderedOncePerIntent, Last, x
      <4> QED BY <4>1, <4>2
    <3> QED BY <3>4, <3>5, <3>7 DEF DemoInv
  <2>2. CASE HandleEditCommit
    <3> DEFINE next == ReplaceFirstUserText(demo.intent, demo.draft)
               k == EditedTurn(demo.intent)
    <3>1. demo \in Demos /\ demo.draft \in Texts /\ demo.draft # NoText /\ demo.intent \in AnyIntent
      BY DEF DemoInv, Demos
    <3>2. rendered' = rendered
      BY <2>2 DEF HandleEditCommit
    <3>3. ASSUME NEW error \in {"empty", "invalid"}, demo' = [demo EXCEPT !.error = error]
          PROVE  DemoInv'
      <4>1. /\ demo' \in Demos /\ demo'.given = demo.given /\ demo'.draft = demo.draft
            /\ demo'.intent = demo.intent /\ demo'.said = demo.said
        BY <3>1, <3>3 DEF Demos
      <4> QED BY <3>2, <4>1 DEF DemoInv, EditChangesTheShownTurn, RenderedOncePerIntent
    <3>4. CASE demo.draft # "" /\ demo' = [demo EXCEPT !.intent = next, !.draft = FindFirstUserText(next),
                                                       !.error = "none", !.said = demo.draft]
      <4>1. /\ next \in AnyIntent /\ next.id = demo.intent.id
            /\ Len(next.messages) = Len(demo.intent.messages)
            /\ \A i \in 1..Len(demo.intent.messages) : i # k => next.messages[i] = demo.intent.messages[i]
            /\ EditedTurn(next) = k
            /\ k # 0 => FindFirstUserText(next) = demo.draft
        <5>1. demo.draft \in STRING /\ demo.draft # ""
          BY <3>1, <3>4 DEF Texts
        <5> QED BY <3>1, <5>1, ReplaceKeeps
      <4> HIDE DEF next
      <4>2. FindFirstUserText(next) \in Texts /\ FindFirstUserText(next) # NoText
        BY <4>1, ShownIsText
      <4>3. /\ demo' \in Demos /\ demo'.given = demo.given /\ demo'.draft # NoText
            /\ demo'.intent = next /\ demo'.said = demo.draft
        BY <3>1, <3>4, <4>1, <4>2 DEF Demos
      <4>4. k = EditedTurn(demo.given) /\ EditChangesTheShownTurn /\ demo.intent.id = demo.given.id
        BY DEF DemoInv
      <4> HIDE DEF k
      <4>5. Len(demo.given.messages) = Len(demo.intent.messages)
        BY <4>4 DEF EditChangesTheShownTurn
      <4>6. DOMAIN demo.given.messages = 1..Len(demo.given.messages)
        <5>1. demo.given.messages \in Seq(IntentMessages)
          BY <3>1 DEF Demos, AnyIntent
        <5> QED BY <5>1, LenProperties
      <4>7. EditChangesTheShownTurn'
        BY <4>1, <4>3, <4>4, <4>5, <4>6 DEF EditChangesTheShownTurn
      <4> QED BY <3>2, <4>1, <4>3, <4>4, <4>7 DEF DemoInv, RenderedOncePerIntent
    <3> QED BY <2>2, <3>3, <3>4 DEF HandleEditCommit
  <2>3. ASSUME NEW t \in Edits, Type(t) PROVE DemoInv'
    <3>1. demo' = [demo EXCEPT !.draft = t] /\ rendered' = rendered /\ demo \in Demos
      BY <2>3 DEF Type, DemoInv
    <3>2. t \in Texts /\ t # NoText
      <4>1. t \in STRING /\ t # NoText
        BY DemoAssumption
      <4> QED BY <4>1 DEF Texts
    <3>3. /\ demo' \in Demos /\ demo'.draft = t /\ demo'.given = demo.given /\ demo'.intent = demo.intent
          /\ demo'.said = demo.said
      BY <3>1, <3>2 DEF Demos
    <3> QED BY <3>1, <3>2, <3>3 DEF DemoInv, EditChangesTheShownTurn, RenderedOncePerIntent
  <2>4. CASE UNCHANGED demoVars
    BY <2>4 DEF demoVars, DemoInv, EditChangesTheShownTurn, RenderedOncePerIntent
  <2> QED BY <2>1, <2>2, <2>3, <2>4 DEF DemoNext
<1> QED BY <1>1, <1>2, PTL DEF DemoSpec

----------------------------------------------------------------------------

\* All that a user reads of the plan and of the money is as it is, for all tasks, intents,
\* tiers, readings, payouts and rows.
THEOREM AccountIsShown ==
  PlanSpec /\ DemoSpec /\ TiersSpec /\ MeterSpec /\ PulseSpec /\ EarningsSpec /\ InvoicesSpec
    => []AccountShownAsItIs
<1>1. PlanInv /\ DemoInv /\ TiersInv /\ MeterInv /\ PulseInv /\ EarningsInv /\ InvoicesInv
      => AccountShownAsItIs
  BY InvPlan, InvMeter, InvPulses, InvEarnings, InvInvoices DEF DemoInv, TiersInv, AccountShownAsItIs
<1> QED BY <1>1, PlanAlways, DemoAlways, TiersAlways, MeterAlways, PulseAlways, EarningsAlways,
           InvoicesAlways, PTL
=============================================================================
