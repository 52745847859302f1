---------------------------- MODULE ChronosProofs ----------------------------
(***************************************************************************)
(* Proofs about Chronos for any number of workers, any caps and any month: *)
(* type correctness; and that every day starts fresh, whatever polls       *)
(* overlap, outlive their lock or go on over midnight.                     *)
(***************************************************************************)
EXTENDS Chronos, TLAPS

----------------------------------------------------------------------------
(* Type correctness. *)

LEMMA InitTyped == ChronosInit => ChronosTypeOK
<1>1. NoReport \in Report
  BY DEF NoReport, Report
<1>2. ChronosInit => saw \in [Poller -> Report] /\ pc \in [Poller -> PollPC]
  BY <1>1 DEF ChronosInit, PollPC
<1>3. ChronosInit => hadAuto \in BOOLEAN /\ late \in BOOLEAN
  BY Zenon DEF ChronosInit
<1> QED
  BY <1>2, <1>3, BoundsNat DEF ChronosInit, ChronosTypeOK, Key, Override, ResetPC

LEMMA StepTyped == ASSUME ChronosTypeOK, [ChronosNext]_chronosVars PROVE ChronosTypeOK'
<1> USE BoundsNat DEF ChronosTypeOK, Key, Override, ResetPC
<1>1. CASE Spend
  BY <1>1 DEF Spend, redis, pollVars, resetVars
<1>2. CASE Midnight
  BY <1>2 DEF Midnight, pollVars
<1>3. CASE LockExpires
  BY <1>3 DEF LockExpires, clock, pollVars, resetVars
<1>4. ASSUME NEW p \in Poller, AcquireLock(p) \/ RunPoll(p) \/ Fail(p) \/ Die(p)
      PROVE  ChronosTypeOK'
  <2>1. pc' \in [Poller -> PollPC]
    BY <1>4 DEF RunPoll, AcquireLock, Fetch, ReadFlag, SetFlag, SetMarker,
                DisableBuilder, ReleaseLock, Fail, Die, Goto, PollPC
  <2>2. saw' \in [Poller -> Report]
    <3>1. CASE Fetch(p)
      <4>1. [daily |-> today, mtd |-> month, day |-> day] \in Report
        BY DEF Report
      <4> QED BY <3>1, <4>1 DEF Fetch
    <3>2. NoReport \in Report
      BY DEF NoReport, Report
    <3> QED
      BY <1>4, <3>1, <3>2 DEF RunPoll, AcquireLock, ReadFlag, SetFlag,
         SetMarker, DisableBuilder, ReleaseLock, Fail, Die
  <2>3. capFlag' \in Key /\ marker' \in Key /\ lock' \in Key
    BY <1>4 DEF RunPoll, AcquireLock, Fetch, ReadFlag, SetFlag, SetMarker,
                DisableBuilder, ReleaseLock, Fail, Die, redis
  <2>4. hemera' \in Override
    BY <1>4 DEF RunPoll, AcquireLock, Fetch, ReadFlag, SetFlag, SetMarker,
                DisableBuilder, ReleaseLock, Fail, Die
  <2>5. deaths' \in 0..MaxDeaths
    BY <1>4 DEF RunPoll, AcquireLock, Fetch, ReadFlag, SetFlag, SetMarker,
                DisableBuilder, ReleaseLock, Fail, Die
  <2>6. late' \in BOOLEAN
    BY <1>4, Zenon DEF RunPoll, AcquireLock, Fetch, ReadFlag, SetFlag, SetMarker,
                DisableBuilder, ReleaseLock, Fail, Die
  <2>7. UNCHANGED <<clock, resetVars>>
    BY <1>4 DEF RunPoll, AcquireLock, Fetch, ReadFlag, SetFlag, SetMarker,
                DisableBuilder, ReleaseLock, Fail, Die
  <2> QED
    BY <2>1, <2>2, <2>3, <2>4, <2>5, <2>6, <2>7 DEF clock, resetVars
<1>5. CASE ResetStep
  <2>1. capFlag' \in Key /\ marker' \in Key /\ lock' \in Key
    BY <1>5 DEF ResetStep, ResetRead, ResetDeleteFlag, ResetDeleteMarker,
                ResetHemera, redis
  <2>2. hemera' \in Override
    BY <1>5 DEF ResetStep, ResetRead, ResetDeleteFlag, ResetDeleteMarker,
                ResetHemera
  <2>3. resetPc' \in ResetPC
    BY <1>5 DEF ResetStep, ResetRead, ResetDeleteFlag, ResetDeleteMarker,
                ResetHemera
  <2>4. hadAuto' \in BOOLEAN
    BY <1>5, Zenon DEF ResetStep, ResetRead, ResetDeleteFlag,
                       ResetDeleteMarker, ResetHemera
  <2>5. late' \in BOOLEAN
    BY <1>5, Zenon DEF ResetStep, ResetRead, ResetDeleteFlag,
                       ResetDeleteMarker, ResetHemera, pollVars
  <2>6. UNCHANGED <<clock, pc, saw, deaths>>
    BY <1>5 DEF ResetStep, ResetRead, ResetDeleteFlag, ResetDeleteMarker,
                ResetHemera, pollVars
  <2> QED
    BY <2>1, <2>2, <2>3, <2>4, <2>5, <2>6 DEF clock
<1>6. CASE ResetDies
  <2>1. hadAuto' \in BOOLEAN
    BY <1>6, Zenon DEF ResetDies
  <2> QED
    BY <1>6, <2>1 DEF ResetDies, clock, redis
<1>7. CASE UNCHANGED chronosVars
  BY <1>7 DEF chronosVars, clock, redis, pollVars, resetVars
<1> QED
  BY <1>1, <1>2, <1>3, <1>4, <1>5, <1>6, <1>7 DEF ChronosNext

(* The keys, the override, the jobs and the reports keep their shape. *)
THEOREM TypeCorrect == ChronosSpec => []ChronosTypeOK
<1> QED
  BY InitTyped, StepTyped, PTL DEF ChronosSpec

----------------------------------------------------------------------------
(* The midnight reset. *)

Over == today >= DailyCap \/ month >= MonthlyCap

\* What a poll is about to do is true of the day it fetched its report on: a report of
\* today is not above the bill, and a poll decides to trip for it only over a cap.
FreshInv ==
  /\ resetPc \in {"due", "read", "abandoned"} \/ (capFlag = "set" => Over \/ late)
  /\ \A p \in Poller :
       /\ saw[p].day <= day
       /\ pc[p] = "fetched" /\ saw[p].day = day =>
            saw[p].daily <= today /\ saw[p].mtd <= month
       /\ pc[p] = "unset_seen" /\ saw[p].day = day => Over

LEMMA InitFresh == ChronosInit => FreshInv
  BY DEF ChronosInit, FreshInv, NoReport

LEMMA StepFresh ==
  ASSUME ChronosTypeOK, FreshInv, [ChronosNext]_chronosVars
  PROVE  FreshInv'
<1> USE CapsPositive, BoundsNat DEF FreshInv, Over, ChronosTypeOK, Report
<1>1. CASE Spend
  BY <1>1 DEF Spend, redis, pollVars, resetVars
\* At midnight every report becomes one of an earlier day.
<1>2. CASE Midnight
  <2>1. day' = day + 1 /\ resetPc' = "due" /\ UNCHANGED <<pc, saw>>
    BY <1>2 DEF Midnight, pollVars
  <2>2. \A p \in Poller : saw'[p].day <= day' /\ saw'[p].day # day'
    BY <2>1
  <2> QED BY <2>1, <2>2
<1>3. CASE LockExpires
  BY <1>3 DEF LockExpires, clock, pollVars, resetVars
<1>4. ASSUME NEW p \in Poller, AcquireLock(p) \/ RunPoll(p) \/ Fail(p) \/ Die(p)
      PROVE  FreshInv'
  <2>1. UNCHANGED <<day, today, month, resetPc>>
    BY <1>4 DEF RunPoll, AcquireLock, Fetch, ReadFlag, SetFlag, SetMarker,
                DisableBuilder, ReleaseLock, Fail, Die, clock, resetVars
  <2>2. CASE Fetch(p)
    <3>1. /\ saw'[p] = [daily |-> today, mtd |-> month, day |-> day]
          /\ pc'[p] = "fetched" /\ UNCHANGED <<capFlag, late>>
          /\ \A q \in Poller : q # p => pc'[q] = pc[q] /\ saw'[q] = saw[q]
      BY <2>2 DEF Fetch, Goto, redis
    <3> QED BY <2>1, <3>1
  <2>3. CASE ReadFlag(p)
    <3>1. pc'[p] = "unset_seen" /\ saw[p].day = day => Over
      BY <2>3 DEF ReadFlag, Goto, OverCap
    <3>2. pc'[p] # "fetched" /\ UNCHANGED <<capFlag, saw, late>>
      BY <2>3 DEF ReadFlag, Goto, redis
    <3>3. \A q \in Poller : q # p => pc'[q] = pc[q]
      BY <2>3 DEF ReadFlag, Goto
    <3> QED BY <2>1, <3>1, <3>2, <3>3
  \* A report of today trips the cap over it; one of an earlier day trips it late, unless
  \* the flag was set already.
  <2>4. CASE SetFlag(p)
    <3>1. /\ late' <=> saw[p].day < day /\ (capFlag = "unset" \/ late)
          /\ pc[p] = "unset_seen" /\ pc'[p] = "flagged" /\ UNCHANGED saw
          /\ \A q \in Poller : q # p => pc'[q] = pc[q]
      BY <2>4 DEF SetFlag, Goto
    <3>2. saw[p].day \in Nat /\ day \in Nat
      OBVIOUS
    <3>3. resetPc \in {"due", "read", "abandoned"} \/ Over \/ late'
      <4>1. CASE saw[p].day = day
        BY <3>1, <4>1
      <4>2. CASE saw[p].day < day
        BY <3>1, <4>2 DEF Key
      <4> QED BY <3>2, <4>1, <4>2
    <3> QED BY <2>1, <3>1, <3>3
  <2>5. CASE AcquireLock(p) \/ SetMarker(p) \/ DisableBuilder(p)
             \/ ReleaseLock(p) \/ Fail(p) \/ Die(p)
    <3>1. pc'[p] \notin {"fetched", "unset_seen"} /\ capFlag' = capFlag /\ late' = late
      BY <2>5 DEF AcquireLock, SetMarker, DisableBuilder, ReleaseLock, Fail,
                  Die, Goto, redis
    <3>2. \A q \in Poller : q # p => pc'[q] = pc[q] /\ saw'[q] = saw[q]
      BY <2>5 DEF AcquireLock, SetMarker, DisableBuilder, ReleaseLock, Fail,
                  Die, Goto
    <3>3. saw'[p].day <= day
      BY <2>5 DEF AcquireLock, SetMarker, DisableBuilder, ReleaseLock, Fail,
                  Die, NoReport
    <3> QED BY <2>1, <3>1, <3>2, <3>3
  <2> QED
    BY <1>4, <2>2, <2>3, <2>4, <2>5 DEF RunPoll
<1>5. CASE ResetStep
  <2>1. UNCHANGED <<clock, pc, saw>>
    BY <1>5 DEF ResetStep, ResetRead, ResetDeleteFlag, ResetDeleteMarker,
                ResetHemera, pollVars
  <2>2. \/ resetPc' = "read"
        \/ capFlag' = "unset"
        \/ resetPc \in {"flag_deleted", "marker_deleted"} /\ UNCHANGED <<capFlag, late>>
    BY <1>5 DEF ResetStep, ResetRead, ResetDeleteFlag, ResetDeleteMarker,
                ResetHemera, redis, pollVars
  <2> QED BY <2>1, <2>2 DEF clock
<1>6. CASE ResetDies
  BY <1>6 DEF ResetDies, redis, clock
<1>7. CASE UNCHANGED chronosVars
  BY <1>7 DEF chronosVars, clock, redis, pollVars, resetVars
<1> QED
  BY <1>1, <1>2, <1>3, <1>4, <1>5, <1>6, <1>7 DEF ChronosNext

(* Once the midnight reset has completed, the cap is set only for spend of   *)
(* the day or of the month, or by a poll that fetched on an earlier day: the *)
(* reset and any number of polls may interleave in any order, whichever of   *)
(* them outlive their lock or the day, fail or die.                          *)
THEOREM NewDayStartsFreshHolds == ChronosSpec => []NewDayStartsFresh
<1>1. ChronosInit => ChronosTypeOK /\ FreshInv
  BY InitTyped, InitFresh
<1>2. ChronosTypeOK /\ FreshInv /\ [ChronosNext]_chronosVars => (ChronosTypeOK /\ FreshInv)'
  BY StepTyped, StepFresh
<1>3. FreshInv => NewDayStartsFresh
  BY DEF FreshInv, NewDayStartsFresh, Over
<1> QED
  BY <1>1, <1>2, <1>3, PTL DEF ChronosSpec
=============================================================================
